---- MODULE Spec2Model ----
(***************************************************************************)
(* A model of the kairos memory stream merge gate: the loose payload, the  *)
(* logical-time tuple, the merge engine, the URL canonicaliser and token   *)
(* extractor, the registry store with its caches, and the HTTP adapter.    *)
(*                                                                         *)
(* JSON values are tagged one-field records: [none |-> TRUE] is None,      *)
(* [int |-> n] an integer, [bool |-> b] a boolean, [float |-> h] the float *)
(* h / 2, [nan |-> TRUE] the float NaN, [str |-> s] a string of            *)
(* plain text, [url |-> u] a string whose text is the URL u (a split       *)
(* result, see the URL section), [list |-> n] a list of n items.           *)
(* A payload is its own model_dump(): a function from field names to JSON  *)
(* values that always holds the ten declared fields.                       *)
(***************************************************************************)
EXTENDS Integers, Sequences, FiniteSets, TLC

VARIABLES
  registry,      \* SigilStateStore._registry: canonical url -> payload
  prune_keep,    \* SigilStateStore._prune_keep (KAI_REGISTRY_KEEP)
  cache_urls,    \* SigilStateStore._cache_urls (None or the ordered list)
  cache_seal,    \* SigilStateStore._cache_seal ("" when dropped)
  cache_state,   \* SigilStateStore._cache_state (None or a SigilState)
  persist_path,  \* SigilStateStore.persist_path: TRUE when KAI_STATE_PATH is set
  disk,          \* the files <path>, <path>.bak and <path>.tmp
  n_inhales,     \* number of inhale_files calls so far
  hist,          \* history of the last inhale_files call (see Inhale)
  ret,           \* what the last store call returned
  lock,          \* SigilStateStore._lock: the thread that holds it, or none
  committed,     \* the registry when the lock was last released by inhale_files
  tpc,           \* per thread: its position in the request handler it runs
  tl,            \* per thread: the locals of that handler
  sem,           \* free permits of _INHALE_SEM
  resp,          \* the last HTTP response sent
  pa, pb,        \* the two payloads handed to the merge engine
  mpc,           \* position of the merge-engine driver
  mab, mba,      \* _merge_payload(pa, pb) and _merge_payload(pb, pa)
  changed,       \* the values returned by the upsert_payload calls so far
  engine,        \* inhale_files_into_registry hit by hit: its position and locals
  call           \* a function called on its own: its name, argument and results

cacheVars == <<cache_urls, cache_seal, cache_state>>
storeVars == <<registry, prune_keep, cacheVars, persist_path, disk, n_inhales, hist, ret>>
mergeVars == <<pa, pb, mpc, mab, mba, changed, engine, call>>
threadVars == <<lock, committed, tpc, tl, sem, resp>>
vars == <<storeVars, mergeVars, threadVars>>

-----------------------------------------------------------------------------
(* Bounds of the model *)

MaxPulse == 1      \* pulses of the merge-engine inputs range over -1..MaxPulse
MaxInhales == 2    \* inhale_files calls in one run
MaxOffset == 1     \* page offsets range over -1..MaxOffset
MaxLimit == 2      \* page limits range over 0..MaxLimit

-----------------------------------------------------------------------------
(* JSON values *)

NoneV == [none |-> TRUE]
IntV(n) == [int |-> n]
StrV(s) == [str |-> s]
UrlV(u) == [url |-> u]
ListV(n) == [list |-> n]
BoolV(b) == [bool |-> b]
FloatV(halves) == [float |-> halves]
NaNV == [nan |-> TRUE]

IsNone(v) == DOMAIN v = {"none"}
IsInt(v) == DOMAIN v = {"int"}
IsBool(v) == DOMAIN v = {"bool"}
IsStr(v) == DOMAIN v = {"str"}
IsUrl(v) == DOMAIN v = {"url"}
IsList(v) == DOMAIN v = {"list"}
IsFloat(v) == DOMAIN v = {"float"}
IsNaN(v) == DOMAIN v = {"nan"}

\* int(f) of a float that is h / 2: truncation towards zero.
Trunc(h) == IF h >= 0 THEN h \div 2 ELSE -((-h) \div 2)

\* str.strip() of a plain text: the blank texts of the model strip to "".
strip(s) == IF s \in {"", " "} THEN "" ELSE s

\* dict.get(k): None for an absent key.
Get(d, k) == IF k \in DOMAIN d THEN d[k] ELSE NoneV

-----------------------------------------------------------------------------
(* app/models/payload.py *)

KaiFields == {"pulse", "beat", "stepIndex"}
StrFields == {"chakraDay", "kaiSignature", "originUrl", "parentUrl",
              "userPhiKey", "phiKey", "phikey"}
DeclaredFields == KaiFields \cup StrFields

\* The payload with every declared field None and no extras.
EmptyPayload == [k \in DeclaredFields |-> NoneV]

\* A payload from the fields given in d (a function on some field names).
Payload(d) == [k \in DeclaredFields \cup DOMAIN d |-> IF k \in DOMAIN d THEN d[k] ELSE NoneV]

\* model_dump(exclude_none=False): the representation of a payload is its dump.
model_dump(p) == p

-----------------------------------------------------------------------------
(* app/core/kai_time.py *)

\* float(s) followed by int(): the numeric texts of the model.
ParseInt(s) == CASE s = "0" -> 0 [] s = "1" -> 1 [] s = "2" -> 2 [] OTHER -> 0

_safe_int(v) ==
  IF IsBool(v) THEN 0
  ELSE IF IsInt(v) THEN v.int
  ELSE IF IsFloat(v) THEN Trunc(v.float)
  ELSE IF IsStr(v) THEN (IF strip(v.str) = "" THEN 0 ELSE ParseInt(strip(v.str)))
  ELSE 0

kai_tuple_from_payload(p) ==
  <<_safe_int(Get(p, "pulse")), _safe_int(Get(p, "beat")), _safe_int(Get(p, "stepIndex"))>>

\* Mutant: only the pulses are compared, beat and stepIndex are forgotten.
TupleLTPulseOnly(a, b) == a[1] < b[1]

\* Python's tuple comparison on (pulse, beat, stepIndex).
TupleLT(a, b) ==
  \/ a[1] < b[1]
  \/ a[1] = b[1] /\ a[2] < b[2]
  \/ a[1] = b[1] /\ a[2] = b[2] /\ a[3] < b[3]

TupleGT(a, b) == TupleLT(b, a)

kai_sort_key_desc(p) == kai_tuple_from_payload(p)

-----------------------------------------------------------------------------
(* app/core/merge_engine.py: the per-payload merge *)

_is_missing(v) ==
  IF IsNone(v) THEN TRUE
  ELSE IF IsStr(v) THEN strip(v.str) = ""
  ELSE IF IsList(v) THEN v.list = 0
  ELSE FALSE

FieldScore(k, v) ==
  IF _is_missing(v) THEN 0
  ELSE 1
       + (IF k \in {"originUrl", "parentUrl", "kaiSignature", "userPhiKey", "phiKey", "phikey"}
          THEN 2 ELSE 0)
       + (IF k \in {"pulse", "beat", "stepIndex", "chakraDay"} THEN 1 ELSE 0)

RECURSIVE SumScore(_, _)
SumScore(d, ks) ==
  IF ks = {} THEN 0
  ELSE LET k == CHOOSE x \in ks : TRUE
       IN FieldScore(k, d[k]) + SumScore(d, ks \ {k})

_richness_score(p) == LET d == model_dump(p) IN SumScore(d, DOMAIN d)

\* Mutant: last write wins whenever the tuples differ.
IncIsBaseLastWins(prev, inc) ==
  LET prev_k == kai_tuple_from_payload(prev)
      inc_k == kai_tuple_from_payload(inc)
  IN IF prev_k # inc_k THEN TRUE
     ELSE _richness_score(inc) > _richness_score(prev)

\* Mutant: on a tie of the tuples the incoming payload is the base unless the
\* stored one is strictly richer.
IncIsBaseOnEqualScore(prev, inc) ==
  LET prev_k == kai_tuple_from_payload(prev)
      inc_k == kai_tuple_from_payload(inc)
  IN IF TupleGT(inc_k, prev_k) THEN TRUE
     ELSE IF TupleLT(inc_k, prev_k) THEN FALSE
     ELSE _richness_score(inc) >= _richness_score(prev)

\* The base of a merge is the incoming payload when it is strictly newer, or
\* when the tuples tie and it is strictly richer; otherwise the stored one.
IncIsBase(prev, inc) ==
  LET prev_k == kai_tuple_from_payload(prev)
      inc_k == kai_tuple_from_payload(inc)
  IN IF TupleGT(inc_k, prev_k) THEN TRUE
     ELSE IF TupleLT(inc_k, prev_k) THEN FALSE
     ELSE _richness_score(inc) > _richness_score(prev)

MergeBase(prev, inc) == IF IncIsBase(prev, inc) THEN inc ELSE prev
MergeOther(prev, inc) == IF IncIsBase(prev, inc) THEN prev ELSE inc

\* Mutant: the fill loop copies every value of other that is not missing,
\* whatever base holds.
FillOverwrites(bd, od) ==
  LET filled == {k \in DOMAIN od : ~_is_missing(od[k])}
  IN [k \in DOMAIN bd \cup filled |-> IF k \in filled THEN od[k] ELSE bd[k]]

\* The fill loop: a key of other is copied when base's value is missing and
\* other's is not; model_validate(bd) of a dump changes nothing.
FillMissing(bd, od) ==
  LET filled == {k \in DOMAIN od : _is_missing(Get(bd, k)) /\ ~_is_missing(od[k])}
  IN [k \in DOMAIN bd \cup filled |-> IF k \in filled THEN od[k] ELSE bd[k]]

_merge_payload(prev, inc) ==
  FillMissing(model_dump(MergeBase(prev, inc)), model_dump(MergeOther(prev, inc)))

\* Mutant: the material-change test is left out, every merge is stored and
\* reported as a change.
StoreAlwaysChanged(reg, url_key, merged) ==
  [changed |-> TRUE, reg |-> [reg EXCEPT ![url_key] = merged]]

\* Mutant: the material-change test looks at the kai tuple only; a merge that
\* keeps the tuple is stored and reported as no change.
StoreMergedKaiOnly(reg, url_key, merged) ==
  [changed |-> kai_tuple_from_payload(reg[url_key]) # kai_tuple_from_payload(merged),
   reg |-> [reg EXCEPT ![url_key] = merged]]

\* The material-change test of upsert_payload on the merged payload.
StoreMerged(reg, url_key, merged) ==
  IF model_dump(reg[url_key]) = model_dump(merged)
  THEN [changed |-> FALSE, reg |-> reg]
  ELSE [changed |-> TRUE, reg |-> [reg EXCEPT ![url_key] = merged]]

\* upsert_payload returns (changed, registry after the call).
upsert_payload(reg, url_key, payload) ==
  IF url_key \notin DOMAIN reg
  THEN [changed |-> TRUE, reg |-> (url_key :> payload) @@ reg]
  ELSE StoreMerged(reg, url_key, _merge_payload(reg[url_key], payload))

-----------------------------------------------------------------------------
(* app/core/url_extract.py                                                 *)
(*                                                                         *)
(* A URL string is modelled by its urlsplit() result: scheme, netloc       *)
(* (host), the route its path starts with, the token that ends the path    *)
(* (a number n stands for the n-th token in string order) and the witness  *)
(* chain of its add= parameter (raw URLs, root first).  A relative         *)
(* reference has scheme and host ""; route "bare" is a string that is only *)
(* a token; route "" is the empty string.  The URLs of the model carry no  *)
(* p=, t=, root= or token= parameter, so the path is the only source of a  *)
(* token candidate.                                                        *)

Url(scheme, host, route, tok, add) ==
  [scheme |-> scheme, host |-> host, route |-> route, tok |-> tok, add |-> add]

EmptyUrl == Url("", "", "", 0, <<>>)

\* KAI_BASE_ORIGIN of the model: https://k.example
BaseScheme == "https"
BaseHost == "k.example"

\* str.lower() on the schemes and hosts of the model.
Lower(s) ==
  CASE s = "HTTPS" -> "https"
    [] s = "K.EXAMPLE" -> "k.example"
    [] OTHER -> s

looks_like_bare_token(u) == u.route = "bare"

_canonicalize_parsed(u) == [u EXCEPT !.scheme = Lower(u.scheme), !.host = Lower(u.host)]

\* urljoin(base_origin, raw): a reference without scheme takes the base's
\* scheme and host; its absolute path replaces the base's.
urljoin(raw) ==
  IF raw.scheme = "" THEN [raw EXCEPT !.scheme = BaseScheme, !.host = BaseHost] ELSE raw

\* quote(token, safe=''): the base64url tokens are left as they are; token
\* 12 is a text with a percent sign, whose quoting is token 13, whose quoting
\* is token 14.
quote(tok) == IF tok \in {12, 13} THEN tok + 1 ELSE tok

\* Mutant: the token of a path that is already /stream/p/<token> is quoted
\* again.
CanonicalizeRequotes(url) ==
  IF url = EmptyUrl THEN EmptyUrl
  ELSE LET raw == IF looks_like_bare_token(url) THEN [url EXCEPT !.route = "/stream/p/"] ELSE url
           u == urljoin(raw)
       IN IF u.route \in {"/p~", "/stream/p~", "/stream/p/"}
          THEN _canonicalize_parsed([u EXCEPT !.route = "/stream/p/", !.tok = quote(u.tok)])
          ELSE _canonicalize_parsed(u)

canonicalize_url(url) ==
  IF url = EmptyUrl THEN EmptyUrl
  ELSE LET raw == IF looks_like_bare_token(url) THEN [url EXCEPT !.route = "/stream/p/"] ELSE url
           u == urljoin(raw)
       IN IF u.route \in {"/p~", "/stream/p~"}
          THEN _canonicalize_parsed([u EXCEPT !.route = "/stream/p/", !.tok = quote(u.tok)])
          ELSE _canonicalize_parsed(u)

\* Candidate tokens of a split URL, in priority order: none for a content-id
\* route, the path token of /stream/p/<token>, /p~<token>, /stream/p~<token>.
_extract_candidate_tokens_from_url(u) ==
  IF u.route = "/stream/c/" THEN <<>>
  ELSE IF u.route \in {"/stream/p/", "/p~", "/stream/p~"} THEN <<u.tok>>
  ELSE <<>>

\* The tokens of the model and the JSON object each decodes to.  Token 6 is
\* not base64url of a JSON object.  Token 3 names token 4 as its parent by a
\* bare token, token 4 names token 1 as its origin by the short route /p~.
\* Tokens 7 to 11 decode to objects whose pulse, beat or stepIndex is no
\* integer: a non-numeric text, the float 1.5, a boolean, NaN, the float 2.0.
\* Tokens 12 to 14 are the texts of quote() and decode to nothing.  Token 15
\* names token 3 as its origin by the canonical URL.
Tokens == 1..15

TokenObj(tok) ==
  CASE tok = 1 -> ("pulse" :> IntV(1)) @@ ("chakraDay" :> StrV("root"))
    [] tok = 2 -> ("u" :> IntV(1)) @@ ("c" :> StrV("crown"))
    [] tok = 3 -> ("pulse" :> IntV(2)) @@ ("parentUrl" :> UrlV(Url("", "", "bare", 4, <<>>)))
    [] tok = 4 -> ("pulse" :> IntV(3)) @@ ("originUrl" :> UrlV(Url("", "", "/p~", 1, <<>>)))
    [] tok = 5 -> ("pulse" :> IntV(-1)) @@ ("beat" :> IntV(2))
    [] tok = 7 -> ("pulse" :> StrV("n1")) @@ ("beat" :> IntV(2))
    [] tok = 8 -> ("pulse" :> IntV(1)) @@ ("stepIndex" :> FloatV(3))
    [] tok = 9 -> ("pulse" :> BoolV(TRUE)) @@ ("beat" :> IntV(1))
    [] tok = 10 -> ("pulse" :> IntV(2)) @@ ("beat" :> NaNV)
    [] tok = 11 -> ("pulse" :> FloatV(4)) @@ ("chakraDay" :> StrV("root"))
    [] tok = 15 -> ("pulse" :> IntV(4)) @@
                   ("originUrl" :> UrlV(Url("https", "k.example", "/stream/p/", 3, <<>>)))
    [] OTHER -> [k \in {} |-> NoneV]

\* _parse_token_to_obj raises for a token that is not a JSON object.
TokenDecodes(tok) == tok \in (1..5) \cup (7..11) \cup {15}

\* SigilPayloadLoose._normalize_aliases: the alias rules in source order,
\* <<canonical key, alias, type the alias value must have>>.
AliasRules ==
  << <<"pulse", "u", "int">>, <<"beat", "b", "int">>, <<"stepIndex", "s", "int">>,
     <<"chakraDay", "c", "str">>, <<"stepIndex", "step_index", "int">>,
     <<"chakraDay", "chakra_day", "str">>, <<"kaiSignature", "kai_signature", "str">>,
     <<"originUrl", "origin_url", "str">>, <<"parentUrl", "parent_url", "str">>,
     <<"stepIndex", "step", "int">> >>

\* isinstance(v, int) holds of a bool too; isinstance(v, str) of any string.
IsInstance(v, type) ==
  IF type = "int" THEN IsInt(v) \/ IsBool(v) ELSE IsStr(v) \/ IsUrl(v)

RECURSIVE ApplyAliasRules(_, _)
ApplyAliasRules(d, i) ==
  IF i > Len(AliasRules) THEN d
  ELSE LET r == AliasRules[i]
           d2 == IF r[1] \notin DOMAIN d /\ r[2] \in DOMAIN d /\ IsInstance(d[r[2]], r[3])
                 THEN (r[1] :> d[r[2]]) @@ d
                 ELSE d
       IN ApplyAliasRules(d2, i + 1)

\* Mutant: an alias of the right type replaces the value of a canonical key
\* that is present.
NormalizeAliasesOverwrite(d) ==
  LET n == ApplyAliasRules(d, 1)
      from(k) == {i \in 1..Len(AliasRules) :
                    /\ AliasRules[i][1] = k
                    /\ AliasRules[i][2] \in DOMAIN d
                    /\ IsInstance(d[AliasRules[i][2]], AliasRules[i][3])}
  IN [k \in DOMAIN n |->
        IF from(k) = {} THEN n[k]
        ELSE d[AliasRules[CHOOSE i \in from(k) : \A j \in from(k) : i <= j][2]]]

_normalize_aliases(d) == ApplyAliasRules(d, 1)

\* The declared field types: int | None and str | None (lax validation turns a
\* bool, a numeric text or a float without fractional part into an int); any
\* other value is a validation error.
FieldValid(k, v) ==
  IF k \in KaiFields THEN \/ IsNone(v) \/ IsInt(v) \/ IsBool(v)
                          \/ (IsStr(v) /\ v.str \in {"0", "1", "2"})
                          \/ (IsFloat(v) /\ v.float % 2 = 0)
  ELSE IF k \in StrFields THEN IsNone(v) \/ IsStr(v) \/ IsUrl(v)
  ELSE TRUE

FieldCoerce(k, v) ==
  IF k \in KaiFields /\ IsBool(v) THEN IntV(IF v.bool THEN 1 ELSE 0)
  ELSE IF k \in KaiFields /\ IsStr(v) THEN IntV(ParseInt(v.str))
  ELSE IF k \in KaiFields /\ IsFloat(v) THEN IntV(v.float \div 2)
  ELSE v

\* model_validate(d): [ok, payload]; not ok stands for ValidationError.
model_validate(d) ==
  LET n == _normalize_aliases(d)
  IN [ok |-> \A k \in DOMAIN n : FieldValid(k, n[k]),
      payload |-> [k \in DeclaredFields \cup DOMAIN n |->
                     IF k \in DOMAIN n THEN FieldCoerce(k, n[k]) ELSE NoneV]]

\* The first candidate that decodes and validates, as UrlPayloadHit; found is
\* FALSE for the None result.
NoHit == [found |-> FALSE, url_key |-> EmptyUrl, payload |-> EmptyPayload]

RECURSIVE TryCandidates(_, _, _)

\* One turn of the loop over the candidates: v is the validation of the decoded
\* object of candidate i.
TryCandidate(key, candidates, i, v) ==
  IF TokenDecodes(candidates[i]) /\ v.ok
  THEN [found |-> TRUE, url_key |-> key, payload |-> v.payload]
  ELSE TryCandidates(key, candidates, i + 1)

TryCandidates(key, candidates, i) ==
  IF i > Len(candidates) THEN NoHit
  ELSE TryCandidate(key, candidates, i, model_validate(TokenObj(candidates[i])))

\* extract_payload_from_url once the key is canonical.
ExtractFromKey(key) ==
  IF key = EmptyUrl THEN NoHit
  ELSE TryCandidates(key, _extract_candidate_tokens_from_url(key), 1)

extract_payload_from_url(url) == ExtractFromKey(canonicalize_url(url))

\* The test a string must pass before it is tried: a bare token, or a text
\* holding "/stream", "/s/", "/p~" or "http".
LooksRelevant(u) ==
  \/ looks_like_bare_token(u)
  \/ u.route \in {"/stream/p/", "/stream/p~", "/stream/c/", "/p~"}
  \/ u.scheme = "https"

\* extract_many_payloads_from_any on the leaves of a decoded JSON value in walk
\* order: a leaf is a JSON value, and only a string that is a URL can hit.
\* visit(x) of one leaf: the hit it yields, if any.
VisitLeaf(x) ==
  IF IsUrl(x) /\ x.url # EmptyUrl /\ LooksRelevant(x.url)
  THEN extract_payload_from_url(x.url)
  ELSE NoHit

\* hits.append(hit) when the hit is not None.
AppendHit(hits, hit) == IF hit.found THEN Append(hits, hit) ELSE hits

extract_many_payloads_from_any(leaves) ==
  LET hits[i \in 0..Len(leaves)] ==
        IF i = 0 THEN <<>> ELSE AppendHit(hits[i - 1], VisitLeaf(leaves[i]))
  IN hits[Len(leaves)]

-----------------------------------------------------------------------------
(* app/core/witness.py (not among the sources; modelled from the design    *)
(* document, sections 4.4 and 4.5 step 6)                                  *)

\* Mutant: the root of the chain is taken for the parent as well.
DeriveRootAsParent(url_key) ==
  LET chain == [i \in 1..Len(url_key.add) |-> canonicalize_url(url_key.add[i])]
  IN [chain |-> chain,
      originUrl |-> IF chain = <<>> THEN NoneV ELSE UrlV(chain[1]),
      parentUrl |-> IF chain = <<>> THEN NoneV ELSE UrlV(chain[1])]

\* The witness chain of a URL: its add= parameter, each element canonicalised,
\* with the origin (root) and parent (nearest) it derives.
derive_witness_context(url_key) ==
  LET chain == [i \in 1..Len(url_key.add) |-> canonicalize_url(url_key.add[i])]
  IN [chain |-> chain,
      originUrl |-> IF chain = <<>> THEN NoneV ELSE UrlV(chain[1]),
      parentUrl |-> IF chain = <<>> THEN NoneV ELSE UrlV(chain[Len(chain)])]

\* Fills only the topology fields the payload is missing.
merge_derived_context(payload, ctx) ==
  [payload EXCEPT
     !["originUrl"] = IF _is_missing(@) THEN ctx.originUrl ELSE @,
     !["parentUrl"] = IF _is_missing(@) THEN ctx.parentUrl ELSE @]

-----------------------------------------------------------------------------
(* app/core/merge_engine.py: batch ingestion *)

\* isinstance(v, str) and v.strip(): a topology field that holds a URL text.
HasUrlText(v) == IsUrl(v) \/ (IsStr(v) /\ strip(v.str) # "")

\* canonicalize_url of a topology field's text; the plain texts of the model
\* are blank.
CanonOfField(v) == IF IsUrl(v) THEN canonicalize_url(v.url) ELSE EmptyUrl

CanonField(v) ==
  IF HasUrlText(v)
  THEN LET o == CanonOfField(v)
       IN IF o # EmptyUrl /\ UrlV(o) # v THEN UrlV(o) ELSE v
  ELSE v

_canonicalize_topology(p) ==
  [p EXCEPT !["originUrl"] = CanonField(p["originUrl"]),
            !["parentUrl"] = CanonField(p["parentUrl"])]

\* Mutant: the decoded payload is stored whether or not the key is present.
EnsureHitOverwrites(reg, hit) ==
  IF ~hit.found THEN [inserted |-> FALSE, reg |-> reg]
  ELSE [inserted |-> hit.url_key \notin DOMAIN reg,
        reg |-> (hit.url_key :> hit.payload) @@ reg]

\* _ensure_url_in_registry after the extraction: nothing for no hit or a key
\* that is present, else the decoded payload is stored as it is.
EnsureHit(reg, hit) ==
  IF ~hit.found THEN [inserted |-> FALSE, reg |-> reg]
  ELSE IF hit.url_key \in DOMAIN reg THEN [inserted |-> FALSE, reg |-> reg]
  ELSE [inserted |-> TRUE, reg |-> (hit.url_key :> hit.payload) @@ reg]

\* _ensure_url_in_registry returns (inserted, registry after the call).
_ensure_url_in_registry(reg, url) == EnsureHit(reg, extract_payload_from_url(url))

\* synthesize_edges_from_witness_chain (witness.py, from the design document):
\* each chain URL absent from the registry is inserted when its token decodes,
\* its missing parentUrl filled with its predecessor in the chain; entries
\* already present are left alone.  Returns (insertions, registry).
SynthesizeHit(chain, i, acc, hit) ==
  IF ~hit.found \/ hit.url_key \in DOMAIN acc.reg THEN acc
  ELSE [n |-> acc.n + 1,
        reg |-> (hit.url_key :>
                   (IF i > 1 /\ _is_missing(hit.payload["parentUrl"])
                    THEN [hit.payload EXCEPT !["parentUrl"] = UrlV(chain[i - 1])]
                    ELSE hit.payload)) @@ acc.reg]

synthesize_edges_from_witness_chain(chain, leaf, reg) ==
  LET acc[i \in 0..Len(chain)] ==
        IF i = 0 THEN [n |-> 0, reg |-> reg]
        ELSE SynthesizeHit(chain, i, acc[i - 1], extract_payload_from_url(chain[i]))
  IN acc[Len(chain)]

\* max_depth of _stitch_explicit_parent_chain.
StitchMaxDepth == 128

\* The while loop of _stitch_explicit_parent_chain runs on its locals
\* [reg, cur_url, depth, changed]; done is set by a break and by the loop
\* condition turning false, and path lists the values cur_url had at the
\* start of the turns.

\* The origin of the current payload is ensured when it canonicalises.
EnsureOrigin(reg, v) ==
  IF HasUrlText(v) /\ CanonOfField(v) # EmptyUrl
  THEN _ensure_url_in_registry(reg, CanonOfField(v))
  ELSE [inserted |-> FALSE, reg |-> reg]

\* The walk goes on from the parent once the parent is ensured (e2).
StitchAscend(s, e2, parent) ==
  [s EXCEPT !.reg = e2.reg, !.cur_url = parent,
            !.changed = @ + (IF e2.inserted THEN 1 ELSE 0)]

\* The rest of a turn of the loop, the origin ensured (e1): the walk ends at a
\* payload without a parent.
StitchParent(s, p, e1) ==
  IF ~HasUrlText(p["parentUrl"]) \/ CanonOfField(p["parentUrl"]) = EmptyUrl
  THEN [s EXCEPT !.reg = e1.reg, !.changed = @ + (IF e1.inserted THEN 1 ELSE 0), !.done = TRUE]
  ELSE StitchAscend([s EXCEPT !.reg = e1.reg, !.changed = @ + (IF e1.inserted THEN 1 ELSE 0)],
                    _ensure_url_in_registry(e1.reg, CanonOfField(p["parentUrl"])),
                    CanonOfField(p["parentUrl"]))

\* depth += 1 at the start of a turn.
StitchDeeper(s) == [s EXCEPT !.depth = @ + 1, !.path = Append(@, s.cur_url)]

\* Mutant: the loop takes one turn more, while depth <= max_depth.
StitchTurnOneMore(s) ==
  IF ~(s.depth <= StitchMaxDepth) THEN [s EXCEPT !.done = TRUE]
  ELSE IF s.cur_url \notin DOMAIN s.reg THEN [StitchDeeper(s) EXCEPT !.done = TRUE]
  ELSE StitchParent(StitchDeeper(s), s.reg[s.cur_url],
                    EnsureOrigin(s.reg, s.reg[s.cur_url]["originUrl"]))

\* The loop condition and one turn of the loop.
StitchTurn(s) ==
  IF ~(s.depth < StitchMaxDepth) THEN [s EXCEPT !.done = TRUE]
  ELSE IF s.cur_url \notin DOMAIN s.reg THEN [StitchDeeper(s) EXCEPT !.done = TRUE]
  ELSE StitchParent(StitchDeeper(s), s.reg[s.cur_url],
                    EnsureOrigin(s.reg, s.reg[s.cur_url]["originUrl"]))

\* The loop from the locals s, for at most 2^k turns.
RECURSIVE StitchLoop(_, _)
StitchLoop(s, k) ==
  IF s.done THEN s
  ELSE IF k = 0 THEN StitchTurn(s)
  ELSE StitchLoop(StitchLoop(s, k - 1), k - 1)

\* return changed: (changed, registry), with the depth reached, the URLs the
\* walk stood at and whether the loop has ended within the 2^8 turns.
StitchReturn(s) ==
  [n |-> s.changed, reg |-> s.reg, depth |-> s.depth, path |-> s.path, done |-> s.done]

_stitch_explicit_parent_chain(reg, start_url) ==
  StitchReturn(StitchLoop([reg |-> reg, cur_url |-> start_url, depth |-> 0, changed |-> 0,
                           path |-> <<>>, done |-> FALSE], 8))

\* InhaleReport()
NewReport ==
  [crystals_total |-> 0, crystals_imported |-> 0, crystals_failed |-> 0,
   registry_urls |-> 0, latest_pulse |-> NoneV, errors |-> <<>>]

\* The body of the loop over the hits of a file; st is the engine's running
\* state [reg, report, registry_changes].
\* The counters after a hit: up, syn and sti are what the upsert, the witness
\* synthesis and the stitching returned.
HitCounted(st, up, syn, sti) ==
  [reg |-> sti.reg,
   report |-> [st.report EXCEPT !.crystals_imported = @ + (IF up.changed THEN 1 ELSE 0)],
   registry_changes |-> st.registry_changes + (IF up.changed THEN 1 ELSE 0) + syn.n + sti.n]

HitStitched(st, url_key, up, syn) ==
  HitCounted(st, up, syn, _stitch_explicit_parent_chain(syn.reg, url_key))

HitSynthesized(st, url_key, ctx, up) ==
  HitStitched(st, url_key, up,
              IF ctx.chain # <<>>
              THEN synthesize_edges_from_witness_chain(ctx.chain, url_key, up.reg)
              ELSE [n |-> 0, reg |-> up.reg])

HitUpserted(st, hit, url_key, ctx) ==
  HitSynthesized(st, url_key, ctx,
                 upsert_payload(st.reg, url_key,
                                _canonicalize_topology(merge_derived_context(hit.payload, ctx))))

HitKeyed(st, hit, url_key) ==
  IF url_key = EmptyUrl THEN st
  ELSE HitUpserted(st, hit, url_key, derive_witness_context(url_key))

ProcessHit(st, hit) == HitKeyed(st, hit, canonicalize_url(hit.url_key))

\* for h in hits: the state after the first i hits.
ProcessHits(st, hits) ==
  LET after[i \in 0..Len(hits)] == IF i = 0 THEN st ELSE ProcessHit(after[i - 1], hits[i])
  IN after[Len(hits)]

\* report.crystals_total += len(hits), then the loop over the hits.
CountAndProcess(st, hits) ==
  ProcessHits([st EXCEPT !.report.crystals_total = @ + Len(hits)], hits)

\* The body of the loop over the files: a file is [name, valid, leaves], valid
\* FALSE for bytes that are not UTF-8 JSON (loads_json_bytes raises).
ProcessFile(st, file) ==
  IF ~file.valid
  THEN [st EXCEPT !.report.crystals_failed = @ + 1,
                  !.report.errors = Append(@, file.name)]
  ELSE CountAndProcess(st, extract_many_payloads_from_any(file.leaves))

\* Mutant: the loop over the files ends at the first file that fails to load.
ProcessFilesStopAtBad(st, files) ==
  LET after[i \in 0..Len(files)] ==
        IF i = 0 THEN st
        ELSE IF \E j \in 1..(i - 1) : ~files[j].valid THEN after[i - 1]
        ELSE ProcessFile(after[i - 1], files[i])
  IN after[Len(files)]

\* for name, blob in files: the state after the first i files.
ProcessFiles(st, files) ==
  LET after[i \in 0..Len(files)] == IF i = 0 THEN st ELSE ProcessFile(after[i - 1], files[i])
  IN after[Len(files)]

\* latest_pulse: the largest pulse among the payloads whose pulse is not None.
RECURSIVE MaxOf(_)
MaxOf(S) ==
  LET x == CHOOSE y \in S : TRUE
  IN IF S = {x} THEN x ELSE LET m == MaxOf(S \ {x}) IN IF x > m THEN x ELSE m

LatestPulse(reg) ==
  LET ps == {reg[u]["pulse"].int : u \in {w \in DOMAIN reg : ~IsNone(reg[w]["pulse"])}}
  IN IF ps = {} THEN NoneV ELSE IntV(MaxOf(ps))

\* inhale_files_into_registry returns (report, registry after the call).
\* The closing lines of inhale_files_into_registry.
FinishReport(st) ==
  [reg |-> st.reg,
   report |-> [st.report EXCEPT !.registry_urls = Cardinality(DOMAIN st.reg),
                                !.latest_pulse = LatestPulse(st.reg)]]

inhale_files_into_registry(reg, files) ==
  FinishReport(ProcessFiles([reg |-> reg, report |-> NewReport, registry_changes |-> 0], files))

\* The text of a URL compares as the sequence of the ranks of its parts in
\* string order: "/..." < a bare token < "HTTPS://" < "https://", then the
\* host, the route, the token and the chain of the add= parameter.
FormRank(u) ==
  CASE u.route = "" -> 0
    [] u.scheme = "" /\ u.route # "bare" -> 1
    [] u.route = "bare" -> 2
    [] u.scheme = "HTTPS" -> 3
    [] OTHER -> 4

HostRank(u) == CASE u.host = "" -> 0 [] u.host = "K.EXAMPLE" -> 1 [] OTHER -> 2

RouteRank(u) ==
  CASE u.route = "/p~" -> 1
    [] u.route = "/stream/c/" -> 2
    [] u.route = "/stream/p/" -> 3
    [] u.route = "/stream/p~" -> 4
    [] OTHER -> 0

RECURSIVE UrlText(_)
UrlText(u) ==
  LET RECURSIVE ChainText(_)
      ChainText(c) == IF c = <<>> THEN <<>> ELSE UrlText(Head(c)) \o ChainText(Tail(c))
  IN <<FormRank(u), HostRank(u), RouteRank(u), u.tok>> \o ChainText(u.add)

\* Python's comparison of two sequences (here: texts).
RECURSIVE SeqLT(_, _)
SeqLT(a, b) ==
  IF b = <<>> THEN FALSE
  ELSE IF a = <<>> THEN TRUE
  ELSE IF Head(a) # Head(b) THEN Head(a) < Head(b)
  ELSE SeqLT(Tail(a), Tail(b))

UrlLT(a, b) == SeqLT(UrlText(a), UrlText(b))

\* The sort key (kai_sort_key_desc(payload), url) of two registry items.
ItemKeyLT(reg, a, b) ==
  LET ka == kai_sort_key_desc(reg[a])
      kb == kai_sort_key_desc(reg[b])
  IN TupleLT(ka, kb) \/ (ka = kb /\ UrlLT(a, b))

\* items.sort(key=key, reverse=True): the keys, greatest sort key first.
RECURSIVE SortedDesc(_, _)
SortedDesc(reg, S) ==
  IF S = {} THEN <<>>
  ELSE LET top == CHOOSE a \in S : \A b \in S \ {a} : ItemKeyLT(reg, b, a)
       IN <<top>> \o SortedDesc(reg, S \ {top})

build_ordered_urls(reg) == SortedDesc(reg, DOMAIN reg)

-----------------------------------------------------------------------------
(* app/core/state_store.py *)

EmptyRegistry == [u \in {} |-> EmptyPayload]

\* The cache fields when dropped: _cache_urls None, _cache_seal "", _cache_state None.
NoUrls == NoneV
NoSeal == [empty |-> TRUE]
NoState == NoneV

\* dumps_canonical_json({"urls": urls}): sorted keys, the list in order.
UrlsJson(urls) == [urls |-> urls]

\* BLAKE2b-128 of a text, hex: distinct texts have distinct digests.
Blake2bHex(text) == [blake2b16 |-> text]

_compute_seal_from_urls(urls) == Blake2bHex(UrlsJson(urls))

\* A file on disk: absent, bytes that are no JSON object, a JSON object
\* without a "registry" object (such as {}), or the canonical JSON of
\* {"spec": "KKS-1.0", "registry": {...}}.
AbsentFile == [kind |-> "absent", registry |-> EmptyRegistry]
CorruptFile == [kind |-> "corrupt", registry |-> EmptyRegistry]
NoRegistryFile == [kind |-> "object", registry |-> EmptyRegistry]
SnapshotFile(reg) == [kind |-> "json", registry |-> reg]

\* _load_json_file_best_effort(path) is not None: the file is read and parses
\* to a JSON object.
_load_json_file_best_effort(f) == f.kind \in {"json", "object"}

\* Mutant: one entry that does not validate discards the whole snapshot.
LoadedAllOrNothing(d) ==
  LET obj == IF _load_json_file_best_effort(d.main) THEN d.main ELSE d.bak
      reg == IF obj.kind = "json" THEN obj.registry ELSE EmptyRegistry
      keep == IF \A u \in DOMAIN reg : u # EmptyUrl /\ model_validate(reg[u]).ok
              THEN DOMAIN reg ELSE {}
  IN [u \in keep |-> model_validate(reg[u]).payload]

\* _load_from_disk_best_effort: the main file, else the backup, else nothing;
\* an entry is kept when its key is a non-blank string and its payload validates.
LoadedRegistry(d) ==
  LET obj == IF _load_json_file_best_effort(d.main) THEN d.main ELSE d.bak
      reg == IF obj.kind = "json" THEN obj.registry ELSE EmptyRegistry
      keep == {u \in DOMAIN reg : u # EmptyUrl /\ model_validate(reg[u]).ok}
  IN [u \in keep |-> model_validate(reg[u]).payload]

\* _atomic_write_text step by step; ok is whether the step's I/O succeeds.
\* Writing <path>.tmp: a failed write leaves no tmp file or a cut one.
WriteTmpOutcomes(d, text) ==
  {[d EXCEPT !.tmp = SnapshotFile(text)]}

WriteTmpFailures(d) == {d, [d EXCEPT !.tmp = CorruptFile]}

\* Copying the target to <path>.bak, errors swallowed: copied, untouched
\* (the read failed) or cut (the write failed).
CopyBakOutcomes(d) ==
  IF d.main.kind = "absent" THEN {d}
  ELSE {[d EXCEPT !.bak = d.main], d, [d EXCEPT !.bak = CorruptFile]}

\* os.replace(tmp, path): atomic, or it raises and nothing moves.
ReplaceOutcomes(d) == {[d EXCEPT !.main = d.tmp, !.tmp = AbsentFile], d}

\* _atomic_write_text(path, text): the disk it leaves and whether it raised.
\* A failed write of the tmp file raises, a failed copy to the backup does
\* not, and a failed os.replace raises with the disk as the copy left it.
_atomic_write_text(d, text) ==
  {[disk |-> f, raised |-> TRUE] : f \in WriteTmpFailures(d)}
  \cup UNION {UNION {{[disk |-> r, raised |-> (r = d2)] : r \in ReplaceOutcomes(d2)} :
                     d2 \in CopyBakOutcomes(d1)} :
              d1 \in WriteTmpOutcomes(d, text)}

\* Mutant: the exception of a failed write leaves _save_to_disk_best_effort.
SaveFailurePropagates(o) == o

\* except Exception: return
SaveFailureSwallowed(o) == [o EXCEPT !.raised = FALSE]

\* _save_to_disk_best_effort: nothing without a path; else the write of the
\* registry's snapshot.  failed keeps whether the write raised inside.
_save_to_disk_best_effort(path, d, reg) ==
  IF ~path THEN {[disk |-> d, raised |-> FALSE, failed |-> FALSE]}
  ELSE {SaveFailureSwallowed([disk |-> o.disk, raised |-> o.raised, failed |-> o.raised]) :
          o \in _atomic_write_text(d, reg)}

\* Mutant: the URLs at the end of the ordered list are kept.
KeepLast(reg, ordered, keep) ==
  [u \in {ordered[i] : i \in (Len(ordered) - keep + 1)..Len(ordered)} |-> reg[u]]

\* for url in ordered[:keep]: the registry rebuilt from the first keep URLs.
KeepFirst(reg, ordered, keep) == [u \in {ordered[i] : i \in 1..keep} |-> reg[u]]

\* Mutant: the test keep <= 0 is left out, so no KAI_REGISTRY_KEEP keeps nothing.
PruneUnguarded(reg, keep) ==
  IF Cardinality(DOMAIN reg) <= keep THEN reg
  ELSE KeepFirst(reg, build_ordered_urls(reg), IF keep > 0 THEN keep ELSE 0)

\* _maybe_prune: the first keep URLs of the ordered list.
_maybe_prune(reg, keep) ==
  IF keep <= 0 \/ Cardinality(DOMAIN reg) <= keep THEN reg
  ELSE KeepFirst(reg, build_ordered_urls(reg), keep)

\* _ensure_urls_cache: (cache_urls, cache_seal) after the call.
UrlsCacheOf(ordered) == [urls |-> [list |-> ordered], seal |-> _compute_seal_from_urls(ordered)]

\* Mutant: the seal is taken over the registry, payloads included.
EnsureUrlsCacheSealsPayloads(reg, c_urls, c_seal) ==
  IF ~IsNone(c_urls) THEN [urls |-> c_urls, seal |-> c_seal]
  ELSE [urls |-> [list |-> build_ordered_urls(reg)],
        seal |-> Blake2bHex([urls |-> build_ordered_urls(reg), registry |-> reg])]

_ensure_urls_cache(reg, c_urls, c_seal) ==
  IF ~IsNone(c_urls) THEN [urls |-> c_urls, seal |-> c_seal]
  ELSE UrlsCacheOf(build_ordered_urls(reg))

\* latest_kai: the greatest tuple of the payloads, from (0, 0, 0).
RECURSIVE LatestFrom(_, _)
LatestFrom(latest, payloads) ==
  IF payloads = <<>> THEN latest
  ELSE LET kt == kai_tuple_from_payload(Head(payloads))
       IN LatestFrom(IF TupleGT(kt, latest) THEN kt ELSE latest, Tail(payloads))

latest_kai(payloads) == LatestFrom(<<0, 0, 0>>, payloads)

\* The SigilState built by _ensure_state_cache from the URL cache.
BuildState(reg, c_urls, c_seal) ==
  LET present == SelectSeq(c_urls.list, LAMBDA u : u \in DOMAIN reg)
      entries == [i \in 1..Len(present) |-> [url |-> present[i], payload |-> reg[present[i]]]]
      payloads == [i \in 1..Len(present) |-> reg[present[i]]]
  IN [spec |-> "KKS-1.0",
      total_urls |-> Len(entries),
      latest |-> IF payloads # <<>> THEN latest_kai(payloads) ELSE <<0, 0, 0>>,
      state_seal |-> c_seal,
      registry |-> entries,
      urls |-> c_urls.list]

\* _ensure_state_cache: (cache_urls, cache_seal, cache_state) after the call.
StateCacheOf(reg, c) == [urls |-> c.urls, seal |-> c.seal, state |-> BuildState(reg, c.urls, c.seal)]

_ensure_state_cache(reg, c_urls, c_seal, c_state) ==
  IF ~IsNone(c_state) THEN [urls |-> c_urls, seal |-> c_seal, state |-> c_state]
  ELSE StateCacheOf(reg, _ensure_urls_cache(reg, c_urls, c_seal))

\* Mutant: _invalidate_cache drops the URL list and the seal and leaves the
\* state snapshot.
InvalidateKeepsState(c) == [urls |-> NoUrls, seal |-> NoSeal, state |-> c.state]

\* Mutant: inhale_files leaves the caches as they are.
KeepCache(c) == c

\* _invalidate_cache: the three cache fields after the call.
_invalidate_cache(c) == [urls |-> NoUrls, seal |-> NoSeal, state |-> NoState]

\* Mutant: the slice runs one URL too far, urls[o : o + l + 1].
PageOfOneMore(urls, offset, limit) ==
  LET o == IF offset > 0 THEN offset ELSE 0
      l == IF limit > 1 THEN limit ELSE 1
      hi == IF o + l + 1 < Len(urls) THEN o + l + 1 ELSE Len(urls)
  IN SubSeq(urls, o + 1, hi)

\* urls[o : o + l] with o = max(0, offset) and l = max(1, limit).
PageOf(urls, offset, limit) ==
  LET o == IF offset > 0 THEN offset ELSE 0
      l == IF limit > 1 THEN limit ELSE 1
      hi == IF o + l < Len(urls) THEN o + l ELSE Len(urls)
  IN SubSeq(urls, o + 1, hi)

\* The registry inhale_files leaves: merge, then prune.
InhaledRegistry(reg, files, keep) == _maybe_prune(inhale_files_into_registry(reg, files).reg, keep)

-----------------------------------------------------------------------------
(* Uploaded files.  Each leaf of a.json .. e.json is one URL string in one  *)
(* of the accepted raw forms; x.json is not JSON; u.json holds a text and a *)
(* URL whose token does not decode.                                         *)

CanonicalOf(tok) == Url("https", "k.example", "/stream/p/", tok, <<>>)

FA == [name |-> "a.json", valid |-> TRUE, leaves |-> <<UrlV(CanonicalOf(1))>>]
FB == [name |-> "b.json", valid |-> TRUE,
       leaves |-> <<UrlV(Url("HTTPS", "K.EXAMPLE", "/stream/p~", 2, <<>>))>>]
FC == [name |-> "c.json", valid |-> TRUE, leaves |-> <<UrlV(Url("", "", "bare", 3, <<>>))>>]
FD == [name |-> "d.json", valid |-> TRUE, leaves |-> <<UrlV(Url("", "", "/p~", 4, <<>>))>>]
FE == [name |-> "e.json", valid |-> TRUE, leaves |-> <<UrlV(CanonicalOf(5))>>]
FO == [name |-> "o.json", valid |-> TRUE, leaves |-> <<UrlV(CanonicalOf(15))>>]
FX == [name |-> "x.json", valid |-> FALSE, leaves |-> <<>>]
FU == [name |-> "u.json", valid |-> TRUE, leaves |-> <<StrV("n1"), UrlV(CanonicalOf(6))>>]
FAB == [name |-> "ab.json", valid |-> TRUE,
        leaves |-> <<UrlV(CanonicalOf(1)), IntV(7), UrlV(Url("", "", "bare", 2, <<>>))>>]

\* The batches a client uploads.
Batches ==
  { <<FA>>, <<FB>>, <<FAB>>, <<FC, FD>>, <<FD, FC>>, <<FE>>, <<FX, FU>>, <<FA, FX>>,
    <<FX, FA>> }

\* Every reordering of a sequence.
Perms(s) ==
  LET n == Len(s)
      bij == {f \in [1..n -> 1..n] : \A i, j \in 1..n : f[i] = f[j] => i = j}
  IN {[i \in 1..n |-> s[f[i]]] : f \in bij}

\* Every reordering of the files of a batch and of the leaves inside them.
BatchPerms(files) ==
  LET leafPerms(file) == {[file EXCEPT !.leaves = l] : l \in Perms(file.leaves)}
      all == UNION {leafPerms(files[i]) : i \in 1..Len(files)}
  IN UNION {{g \in [1..Len(files) -> all] : \A i \in 1..Len(files) : g[i] \in leafPerms(fs[i])} :
            fs \in Perms(files)}

-----------------------------------------------------------------------------
(* Threads: the event loop and the worker threads that run the handlers *)

Threads == {"t1", "t2"}

NoOwner == "none"

\* Mutant: the lock is entered whoever holds it.
LockIgnored(owner) == TRUE

\* with self._lock: a thread that does not hold the lock enters when it is free.
LockFree(owner) == owner = NoOwner

\* The running state of the merge engine before the first file.
NewEngineState(reg) == [reg |-> reg, report |-> NewReport, registry_changes |-> 0]

NoCall == [op |-> "none"]

NoResponse == [route |-> "none"]

\* The defaults of KAI_MAX_CONCURRENT_INHALES, KAI_MAX_INLINE_STATE_URLS and
\* KAI_MAX_INLINE_URLS.
_MAX_CONCURRENT_INHALES == 32
_MAX_INLINE_STATE_URLS == 10000
_MAX_INLINE_URLS == 20000

\* max(1, int(os.getenv("KAI_MAX_CONCURRENT_INHALES", "32")))
MaxConcurrentInhales(env) == IF env > 1 THEN env ELSE 1

\* Mutant: leaving the async with block gives no permit back.
SemReleaseLeaks(value) == value

\* async with _INHALE_SEM: a permit is taken on entry and given back on every
\* exit of the block.
SemRelease(value) == value + 1
SemAcquire(value) == value - 1

\* A POST /inhale request: its file parts (the file and the number of bytes
\* read from it), whether reading the form raises, and max_bytes_per_file.
NoRequest == [uploads |-> <<>>, broken |-> FALSE, max_bytes |-> 0]

\* A request without If-None-Match header.
NoHeader == [absent |-> TRUE]

\* The locals of a handler that has not started: the batch, the merge engine's
\* running state, the seal and the state it read, the request's If-None-Match,
\* offset and mode, the seal of the registry when it read the seal, the
\* POST /inhale request, its notes on skipped parts and its number of parts.
NoLocal ==
  [files |-> <<>>, i |-> 0, st |-> NewEngineState(EmptyRegistry),
   seal |-> NoSeal, state |-> NoState,
   inm |-> NoHeader, offset |-> 0, mode |-> "urls", current |-> NoSeal,
   request |-> NoRequest, soft_notes |-> <<>>, total_uploads |-> 0]

\* No request is being handled.
HandlersIdle ==
  /\ lock = NoOwner
  /\ tpc = [t \in Threads |-> "idle"]
  /\ tl = [t \in Threads |-> NoLocal]
  /\ resp = NoResponse

\* No request is being handled and KAI_MAX_CONCURRENT_INHALES is not set.
ThreadsIdle ==
  /\ HandlersIdle
  /\ sem = _MAX_CONCURRENT_INHALES

-----------------------------------------------------------------------------
(* The store, one call at a time *)

\* The values of KAI_REGISTRY_KEEP: no pruning, or the two newest entries.
PruneKeeps == {0, 2}

NoDisk == [main |-> AbsentFile, bak |-> AbsentFile, tmp |-> AbsentFile]

\* The history before the first inhale_files call.
NoHist(reg) ==
  [files |-> <<>>, reg_before |-> reg, merged |-> reg,
   save_failed |-> FALSE,
   seal_before |-> _compute_seal_from_urls(build_ordered_urls(reg)),
   repeat |-> FALSE, perms |-> {reg}]

\* The locals of inhale_files_into_registry between two hits, no file read yet.
EngineIdle ==
  [pc |-> "next", hits |-> <<>>, i |-> 0, url_key |-> EmptyUrl,
   ctx |-> derive_witness_context(EmptyUrl), merged_leaf |-> EmptyPayload]

\* No function is called on its own.
NoFunction == [fn |-> "none", arg |-> <<>>, out |-> <<>>]

MergeIdle ==
  /\ pa = EmptyPayload /\ pb = EmptyPayload
  /\ mpc = "idle"
  /\ mab = EmptyPayload /\ mba = EmptyPayload
  /\ changed = <<>>
  /\ engine = EngineIdle
  /\ call = NoFunction

\* SigilStateStore.__init__ without KAI_STATE_PATH.
InitStore ==
  /\ persist_path = FALSE
  /\ disk = NoDisk
  /\ prune_keep \in PruneKeeps
  /\ registry = EmptyRegistry
  /\ cache_urls = NoUrls /\ cache_seal = NoSeal /\ cache_state = NoState
  /\ n_inhales = 0
  /\ hist = NoHist(EmptyRegistry)
  /\ ret = NoCall
  /\ committed = registry
  /\ ThreadsIdle
  /\ MergeIdle

\* inhale_files(files): merge, prune and invalidate, then the save.  hist keeps
\* the batch, the registry and the seal a reader got before the call, the
\* registry the merge left before pruning, whether the write of the
\* save failed, whether the call repeats the one before it, and
\* the registries the call leaves for every reordering of the batch.  An
\* exception that leaves the call is what the caller gets in place of the
\* report.
Inhale(files) ==
  /\ n_inhales < MaxInhales
  /\ LockFree(lock)
  /\ \E r \in {inhale_files_into_registry(registry, files)},
        c \in {_invalidate_cache([urls |-> cache_urls, seal |-> cache_seal, state |-> cache_state])} :
        /\ registry' = _maybe_prune(r.reg, prune_keep)
        /\ cache_urls' = c.urls /\ cache_seal' = c.seal /\ cache_state' = c.state
        /\ \E sv \in _save_to_disk_best_effort(persist_path, disk, registry') :
             /\ disk' = sv.disk
             /\ ret' = IF sv.raised THEN [op |-> "inhale", raised |-> TRUE]
                       ELSE [op |-> "inhale", report |-> r.report]
             /\ hist' = [files |-> files, reg_before |-> registry, merged |-> r.reg,
                         save_failed |-> sv.failed,
                         seal_before |-> _ensure_urls_cache(registry, cache_urls, cache_seal).seal,
                         repeat |-> (n_inhales > 0 /\ hist.files = files),
                         perms |-> {InhaledRegistry(registry, g, prune_keep) : g \in BatchPerms(files)}]
  /\ n_inhales' = n_inhales + 1
  /\ committed' = registry'
  /\ UNCHANGED <<prune_keep, persist_path, mergeVars, lock, tpc, tl, sem, resp>>

\* exhale_urls()
ExhaleURLs ==
  /\ LockFree(lock)
  /\ \E c \in {_ensure_urls_cache(registry, cache_urls, cache_seal)} :
        /\ cache_urls' = c.urls /\ cache_seal' = c.seal
        /\ ret' = [op |-> "exhale_urls", urls |-> c.urls.list]
  /\ UNCHANGED <<registry, prune_keep, cache_state, persist_path, disk, n_inhales, hist, mergeVars, threadVars>>

\* exhale_urls_page(offset, limit)
ExhaleURLsPage(offset, limit) ==
  /\ LockFree(lock)
  /\ \E c \in {_ensure_urls_cache(registry, cache_urls, cache_seal)} :
        /\ cache_urls' = c.urls /\ cache_seal' = c.seal
        /\ ret' = [op |-> "exhale_urls_page", offset |-> offset, limit |-> limit,
                   page |-> PageOf(c.urls.list, offset, limit), total |-> Len(c.urls.list)]
  /\ UNCHANGED <<registry, prune_keep, cache_state, persist_path, disk, n_inhales, hist, mergeVars, threadVars>>

\* get_seal()
GetSeal ==
  /\ LockFree(lock)
  /\ \E c \in {_ensure_urls_cache(registry, cache_urls, cache_seal)} :
        /\ cache_urls' = c.urls /\ cache_seal' = c.seal
        /\ ret' = [op |-> "get_seal", seal |-> c.seal]
  /\ UNCHANGED <<registry, prune_keep, cache_state, persist_path, disk, n_inhales, hist, mergeVars, threadVars>>

\* get_state()
GetState ==
  /\ LockFree(lock)
  /\ \E c \in {_ensure_state_cache(registry, cache_urls, cache_seal, cache_state)} :
        /\ cache_urls' = c.urls /\ cache_seal' = c.seal /\ cache_state' = c.state
        /\ ret' = [op |-> "get_state", state |-> c.state]
  /\ UNCHANGED <<registry, prune_keep, persist_path, disk, n_inhales, hist, mergeVars, threadVars>>

NextStore ==
  \/ \E files \in Batches : Inhale(files)
  \/ ExhaleURLs
  \/ \E offset \in -1..MaxOffset, limit \in 0..MaxLimit : ExhaleURLsPage(offset, limit)
  \/ GetSeal
  \/ GetState

SpecStore == InitStore /\ [][NextStore]_vars

\* Batches whose leaves name ancestors by their payloads: o.json names the URL
\* of c.json as its origin, c.json names the one of d.json as its parent.
ImportBatches == { <<FO>>, <<FC>>, <<FD>>, <<FA>>, <<FC, FO>> }

InitImport ==
  /\ persist_path = FALSE
  /\ disk = NoDisk
  /\ prune_keep = 0
  /\ registry = EmptyRegistry
  /\ cache_urls = NoUrls /\ cache_seal = NoSeal /\ cache_state = NoState
  /\ n_inhales = 0
  /\ hist = NoHist(EmptyRegistry)
  /\ ret = NoCall
  /\ committed = registry
  /\ ThreadsIdle
  /\ MergeIdle

NextImport ==
  \/ \E files \in ImportBatches : Inhale(files)
  \/ GetSeal
  \/ GetState

SpecImport == InitImport /\ [][NextImport]_vars

-----------------------------------------------------------------------------
(* The store with KAI_STATE_PATH set *)

\* Registries a state file may hold ("registry": url -> payload object).  RA
\* holds under the URL of token 5 a payload that carries a beat only; RB holds
\* under the URL of token 1 a payload that carries the pulse only, and under
\* the URL of token 2 an object that does not validate.  RC holds the URL of
\* token 1 as a client may write it, scheme and host in capitals.
RA == (CanonicalOf(5) :> ("beat" :> IntV(1)))
RB == (CanonicalOf(1) :> ("pulse" :> IntV(1))) @@ (CanonicalOf(2) :> ("pulse" :> StrV("n1")))
RC == (Url("HTTPS", "K.EXAMPLE", "/stream/p/", 1, <<>>) :> ("pulse" :> IntV(1)))

StartDisks ==
  {[main |-> m, bak |-> b, tmp |-> AbsentFile] :
     m \in {AbsentFile, CorruptFile, NoRegistryFile, SnapshotFile(RA), SnapshotFile(RB),
            SnapshotFile(RC)},
     b \in {AbsentFile, SnapshotFile(RB)}}

PersistBatches == { <<FE>>, <<FA>>, <<FX>> }

\* SigilStateStore.__init__ with KAI_STATE_PATH: the registry is loaded from
\* the state file or its backup.
InitPersist ==
  /\ persist_path = TRUE
  /\ disk \in StartDisks
  /\ prune_keep = 0
  /\ registry = LoadedRegistry(disk)
  /\ cache_urls = NoUrls /\ cache_seal = NoSeal /\ cache_state = NoState
  /\ n_inhales = 0
  /\ hist = NoHist(registry)
  /\ ret = NoCall
  /\ committed = registry
  /\ ThreadsIdle
  /\ MergeIdle

NextPersist ==
  \/ \E files \in PersistBatches : Inhale(files)
  \/ ExhaleURLs
  \/ GetSeal
  \/ GetState

SpecPersist == InitPersist /\ [][NextPersist]_vars

-----------------------------------------------------------------------------
(* The HTTP adapter (app/api/routes.py) on the threads: every store call of  *)
(* a handler is one step, and inhale_files is split at the points where the *)
(* registry changes.  A store call records in ret what it returned, the     *)
(* registry it read (seen) and the registry the last finished inhale_files  *)
(* left (committed).                                                        *)

ThreadBatches == { <<FA, FB>>, <<FC>> }

\* SigilStateStore.__init__ behind get_store(), no state file, the two newest
\* entries kept.
InitThreads ==
  /\ persist_path = FALSE
  /\ disk = NoDisk
  /\ prune_keep = 2
  /\ registry = EmptyRegistry
  /\ cache_urls = NoUrls /\ cache_seal = NoSeal /\ cache_state = NoState
  /\ n_inhales = 0
  /\ hist = NoHist(EmptyRegistry)
  /\ ret = NoCall
  /\ committed = registry
  /\ ThreadsIdle
  /\ MergeIdle

storeFrame == <<prune_keep, persist_path, n_inhales, hist, mergeVars>>

\* _etag_from_seal(seal): the seal between double quotes.
_etag_from_seal(seal) == [quoted |-> seal]

\* inm == etag, where inm is the If-None-Match header ("" when absent).  The
\* header values of the model carry no outer blanks, so strip() leaves them.
NotModified(inm, etag) == inm = etag

\* Mutant: GET /urls answers 304 at any offset.
UrlsNotModifiedAnyOffset(inm, etag, offset) == inm = etag

\* GET /urls: inm == etag and offset == 0
UrlsNotModified(inm, etag, offset) == inm = etag /\ offset = 0

\* _resp_304(etag=etag).  inm, offset and current keep the request's
\* If-None-Match and offset and the seal of the registry when the handler
\* read the seal.
_resp_304(route, etag, inm, offset, current) ==
  [route |-> route, status |-> 304, etag |-> etag,
   inm |-> inm, offset |-> offset, current |-> current]

\* The seal of the ordered URL list of a registry.
SealOf(reg) == _compute_seal_from_urls(build_ordered_urls(reg))

\* s = _store_seal(store) and the If-None-Match test of GET /urls, GET /state
\* and GET /exhale by thread t: a 304 response, or the handler goes on at pc
\* next to fetch the body.
Revalidate(t, route, inm, offset, mode, next) ==
  /\ tpc[t] = "idle"
  /\ LockFree(lock)
  /\ \E c \in {_ensure_urls_cache(registry, cache_urls, cache_seal)} :
       /\ cache_urls' = c.urls /\ cache_seal' = c.seal
       /\ ret' = [op |-> "get_seal", seal |-> c.seal, seen |-> registry, committed |-> committed]
       /\ IF (IF route = "urls" THEN UrlsNotModified(inm, _etag_from_seal(c.seal), offset)
              ELSE NotModified(inm, _etag_from_seal(c.seal)))
          THEN /\ resp' = _resp_304(route, _etag_from_seal(c.seal), inm, offset, SealOf(committed))
               /\ UNCHANGED <<tpc, tl>>
          ELSE /\ tl' = [tl EXCEPT ![t].seal = c.seal, ![t].inm = inm, ![t].offset = offset,
                                   ![t].mode = mode, ![t].current = SealOf(committed)]
               /\ tpc' = [tpc EXCEPT ![t] = next]
               /\ UNCHANGED resp
  /\ UNCHANGED <<registry, cache_state, disk, lock, committed, sem, storeFrame>>

\* get_seal() by thread t; the handler goes on at pc next.
CallGetSeal(t, next) ==
  /\ LockFree(lock)
  /\ \E c \in {_ensure_urls_cache(registry, cache_urls, cache_seal)} :
       /\ cache_urls' = c.urls /\ cache_seal' = c.seal
       /\ ret' = [op |-> "get_seal", seal |-> c.seal, seen |-> registry, committed |-> committed]
       /\ tl' = [tl EXCEPT ![t].seal = c.seal]
  /\ tpc' = [tpc EXCEPT ![t] = next]
  /\ UNCHANGED <<registry, cache_state, disk, lock, committed, sem, resp, storeFrame>>

\* max_bytes_per_file of the requests of the model, in bytes.
MaxBytes == 1

\* A file part of n bytes.
Upload(file, n) == [file |-> file, size |-> n]

\* A note on a part: the file's name and what is said of it.
Note(name, text) == [name |-> name, note |-> text]

\* Mutant: an empty part is read as a blob.
ReadKeepsEmpty(up, max_bytes) ==
  IF up.size > max_bytes
  THEN [blob |-> <<>>, notes |-> <<Note(up.file.name, "too large"), Note(up.file.name, "skipped")>>]
  ELSE [blob |-> <<up.file>>, notes |-> <<>>]

\* _read_upload_capped(up, max_bytes): the blob (<<>> for None) and the notes.
_read_upload_capped(up, max_bytes) ==
  IF up.size > max_bytes
  THEN [blob |-> <<>>, notes |-> <<Note(up.file.name, "too large"), Note(up.file.name, "skipped")>>]
  ELSE IF up.size = 0
  THEN [blob |-> <<>>, notes |-> <<Note(up.file.name, "empty file"), Note(up.file.name, "skipped")>>]
  ELSE [blob |-> <<up.file>>, notes |-> <<>>]

\* The loop over the uploads: file_blobs and soft_notes.
ReadUploads(uploads, max_bytes) ==
  LET acc[i \in 0..Len(uploads)] ==
        IF i = 0 THEN [file_blobs |-> <<>>, soft_notes |-> <<>>]
        ELSE [file_blobs |-> acc[i - 1].file_blobs \o _read_upload_capped(uploads[i], max_bytes).blob,
              soft_notes |-> acc[i - 1].soft_notes \o _read_upload_capped(uploads[i], max_bytes).notes]
  IN acc[Len(uploads)]

\* The request whose parts are the files of a batch, each within the cap.
RequestOf(files) ==
  [uploads |-> [i \in 1..Len(files) |-> Upload(files[i], MaxBytes)],
   broken |-> FALSE, max_bytes |-> MaxBytes]

\* _inhale_error(message, status_code=400, files_received, errors); request
\* keeps the request that was answered.
_inhale_error(message, files_received, errors, request) ==
  [route |-> "inhale", status |-> 400, body_status |-> "error",
   files_received |-> files_received, report |-> NewReport,
   errors |-> (IF errors = <<>> THEN <<Note("", message)>> ELSE errors),
   state |-> NoState, urls |-> NoUrls, request |-> request, files |-> <<>>]

\* POST /inhale: the semaphore is entered and the uploads, every one within
\* the cap, are read.
InhaleRequest(t, files) ==
  /\ tpc[t] = "idle"
  /\ n_inhales < MaxInhales
  /\ sem > 0
  /\ sem' = SemAcquire(sem)
  /\ n_inhales' = n_inhales + 1
  /\ tl' = [tl EXCEPT ![t].files = ReadUploads(RequestOf(files).uploads, MaxBytes).file_blobs,
                       ![t].request = RequestOf(files),
                       ![t].total_uploads = Len(files)]
  /\ tpc' = [tpc EXCEPT ![t] = "inhale_lock"]
  /\ UNCHANGED <<registry, cacheVars, disk, ret, lock, committed, resp,
                 prune_keep, persist_path, hist, mergeVars>>

\* The POST /inhale requests of the model at most.
MaxRequests == 3

\* POST /inhale arrives and waits for a permit of _INHALE_SEM.
InhaleArrive(t, request) ==
  /\ tpc[t] = "idle"
  /\ n_inhales < MaxRequests
  /\ n_inhales' = n_inhales + 1
  /\ tl' = [tl EXCEPT ![t].request = request]
  /\ tpc' = [tpc EXCEPT ![t] = "inhale_wait"]
  /\ UNCHANGED <<registry, cacheVars, disk, ret, lock, committed, sem, resp,
                 prune_keep, persist_path, hist, mergeVars>>

\* async with _INHALE_SEM: entry.
InhaleEnter(t) ==
  /\ tpc[t] = "inhale_wait"
  /\ sem > 0
  /\ sem' = SemAcquire(sem)
  /\ tpc' = [tpc EXCEPT ![t] = "collect"]
  /\ UNCHANGED <<registry, cacheVars, disk, ret, lock, committed, tl, resp, storeFrame>>

\* What the handler does with the parts it read: r is ReadUploads of them.
\* No acceptable part: HTTP 400 and the block is left; else the blobs go on
\* to inhale_files.
Collected(t, r) ==
  IF r.file_blobs = <<>>
  THEN /\ resp' = _inhale_error("All uploaded files were rejected or empty.",
                                Len(tl[t].request.uploads), r.soft_notes, tl[t].request)
       /\ sem' = SemRelease(sem)
       /\ tl' = [tl EXCEPT ![t] = NoLocal]
       /\ tpc' = [tpc EXCEPT ![t] = "idle"]
  ELSE /\ tl' = [tl EXCEPT ![t].files = r.file_blobs, ![t].soft_notes = r.soft_notes,
                           ![t].total_uploads = Len(tl[t].request.uploads)]
       /\ tpc' = [tpc EXCEPT ![t] = "inhale_lock"]
       /\ UNCHANGED <<sem, resp>>

\* POST /inhale: _collect_uploads and the loop over _read_upload_capped.  A
\* form that cannot be read raises out of the handler (HTTP 500).
InhaleCollect(t) ==
  /\ tpc[t] = "collect"
  /\ IF tl[t].request.broken
     THEN /\ resp' = [route |-> "inhale", status |-> 500, request |-> tl[t].request]
          /\ sem' = SemRelease(sem)
          /\ tl' = [tl EXCEPT ![t] = NoLocal]
          /\ tpc' = [tpc EXCEPT ![t] = "idle"]
     ELSE IF tl[t].request.uploads = <<>>
     THEN /\ resp' = _inhale_error("No files received for inhale.", 0, <<>>, tl[t].request)
          /\ sem' = SemRelease(sem)
          /\ tl' = [tl EXCEPT ![t] = NoLocal]
          /\ tpc' = [tpc EXCEPT ![t] = "idle"]
     ELSE Collected(t, ReadUploads(tl[t].request.uploads, tl[t].request.max_bytes))
  /\ UNCHANGED <<registry, cacheVars, disk, ret, lock, committed, storeFrame>>

\* inhale_files: with self._lock
InhaleAcquire(t) ==
  /\ tpc[t] = "inhale_lock"
  /\ LockFree(lock)
  /\ lock' = t
  /\ tl' = [tl EXCEPT ![t].st = NewEngineState(registry), ![t].i = 0]
  /\ tpc' = [tpc EXCEPT ![t] = "merge"]
  /\ UNCHANGED <<registry, cacheVars, disk, ret, committed, sem, resp, storeFrame>>

\* inhale_files_into_registry: one file of the batch is merged into the registry.
InhaleMergeFile(t) ==
  /\ tpc[t] = "merge"
  /\ tl[t].i < Len(tl[t].files)
  /\ \E st \in {ProcessFile([tl[t].st EXCEPT !.reg = registry], tl[t].files[tl[t].i + 1])} :
       /\ registry' = st.reg
       /\ tl' = [tl EXCEPT ![t].st = st, ![t].i = @ + 1]
  /\ UNCHANGED <<cacheVars, disk, ret, lock, committed, tpc, sem, resp, storeFrame>>

\* The report is closed and _maybe_prune runs.
InhalePrune(t) ==
  /\ tpc[t] = "merge"
  /\ tl[t].i = Len(tl[t].files)
  /\ tl' = [tl EXCEPT ![t].st.report = FinishReport([tl[t].st EXCEPT !.reg = registry]).report]
  /\ registry' = _maybe_prune(registry, prune_keep)
  /\ tpc' = [tpc EXCEPT ![t] = "invalidate"]
  /\ UNCHANGED <<cacheVars, disk, ret, lock, committed, sem, resp, storeFrame>>

\* _invalidate_cache, and the lock is released.
InhaleRelease(t) ==
  /\ tpc[t] = "invalidate"
  /\ \E c \in {_invalidate_cache([urls |-> cache_urls, seal |-> cache_seal, state |-> cache_state])} :
       cache_urls' = c.urls /\ cache_seal' = c.seal /\ cache_state' = c.state
  /\ lock' = NoOwner
  /\ committed' = registry
  /\ tpc' = [tpc EXCEPT ![t] = "save"]
  /\ UNCHANGED <<registry, disk, ret, tl, sem, resp, storeFrame>>

\* _save_to_disk_best_effort, and inhale_files returns.
InhaleSave(t) ==
  /\ tpc[t] = "save"
  /\ \E sv \in _save_to_disk_best_effort(persist_path, disk, registry) :
       /\ disk' = sv.disk
       /\ ret' = IF sv.raised THEN [op |-> "inhale", raised |-> TRUE]
                 ELSE [op |-> "inhale", report |-> tl[t].st.report]
  /\ tpc' = [tpc EXCEPT ![t] = "inhale_seal"]
  /\ UNCHANGED <<registry, cacheVars, lock, committed, tl, sem, resp, storeFrame>>

\* POST /inhale: seal = _store_seal(store)
InhaleSeal(t) ==
  /\ tpc[t] = "inhale_seal"
  /\ CallGetSeal(t, "inhale_state")

\* POST /inhale: state = store.get_state() unless suppressed
InhaleState(t) ==
  /\ tpc[t] = "inhale_state"
  /\ IF tl[t].st.report.registry_urls > _MAX_INLINE_STATE_URLS
     THEN UNCHANGED <<cacheVars, ret, tl>>
     ELSE /\ LockFree(lock)
          /\ \E c \in {_ensure_state_cache(registry, cache_urls, cache_seal, cache_state)} :
               /\ cache_urls' = c.urls /\ cache_seal' = c.seal /\ cache_state' = c.state
               /\ ret' = [op |-> "get_state", state |-> c.state,
                          seen |-> registry, committed |-> committed]
               /\ tl' = [tl EXCEPT ![t].state = c.state]
  /\ tpc' = [tpc EXCEPT ![t] = "inhale_urls"]
  /\ UNCHANGED <<registry, disk, lock, committed, sem, resp, storeFrame>>

\* POST /inhale: urls = store.exhale_urls() unless suppressed, and the response.
InhaleRespond(t) ==
  /\ tpc[t] = "inhale_urls"
  /\ IF tl[t].st.report.registry_urls > _MAX_INLINE_URLS
     THEN /\ resp' = [route |-> "inhale", status |-> 200, body_status |-> "ok",
                      etag |-> _etag_from_seal(tl[t].seal),
                      files_received |-> tl[t].total_uploads,
                      report |-> tl[t].st.report,
                      errors |-> tl[t].st.report.errors \o tl[t].soft_notes,
                      state |-> tl[t].state, urls |-> NoUrls,
                      request |-> tl[t].request, files |-> tl[t].files]
          /\ UNCHANGED <<cacheVars, ret>>
     ELSE /\ LockFree(lock)
          /\ \E c \in {_ensure_urls_cache(registry, cache_urls, cache_seal)} :
               /\ cache_urls' = c.urls /\ cache_seal' = c.seal
               /\ ret' = [op |-> "exhale_urls", urls |-> c.urls.list,
                          seen |-> registry, committed |-> committed]
               /\ resp' = [route |-> "inhale", status |-> 200, body_status |-> "ok",
                           etag |-> _etag_from_seal(tl[t].seal),
                           files_received |-> tl[t].total_uploads,
                           report |-> tl[t].st.report,
                           errors |-> tl[t].st.report.errors \o tl[t].soft_notes,
                           state |-> tl[t].state, urls |-> c.urls,
                           request |-> tl[t].request, files |-> tl[t].files]
          /\ UNCHANGED cache_state
  /\ sem' = SemRelease(sem)
  /\ tl' = [tl EXCEPT ![t] = NoLocal]
  /\ tpc' = [tpc EXCEPT ![t] = "idle"]
  /\ UNCHANGED <<registry, disk, lock, committed, storeFrame>>

\* GET /seal: _store_seal(store), the If-None-Match test and the response.
SealRequest(t, inm) ==
  /\ tpc[t] = "idle"
  /\ LockFree(lock)
  /\ \E c \in {_ensure_urls_cache(registry, cache_urls, cache_seal)} :
       /\ cache_urls' = c.urls /\ cache_seal' = c.seal
       /\ ret' = [op |-> "get_seal", seal |-> c.seal, seen |-> registry, committed |-> committed]
       /\ resp' = IF NotModified(inm, _etag_from_seal(c.seal))
                  THEN _resp_304("seal", _etag_from_seal(c.seal), inm, 0, SealOf(committed))
                  ELSE [route |-> "seal", status |-> 200, etag |-> _etag_from_seal(c.seal),
                        seal |-> c.seal, inm |-> inm, offset |-> 0,
                        current |-> SealOf(committed)]
  /\ UNCHANGED <<registry, cache_state, disk, lock, committed, tpc, tl, sem, storeFrame>>

\* GET /urls: s = _store_seal(store) and the If-None-Match test
UrlsRequest(t, inm, offset) ==
  Revalidate(t, "urls", inm, offset, "urls", "urls_page")

\* GET /urls: _store_urls_page(store, offset, limit) and the response; from is
\* the list the page and the total were taken from.
UrlsRespond(t, limit) ==
  /\ tpc[t] = "urls_page"
  /\ LockFree(lock)
  /\ \E c \in {_ensure_urls_cache(registry, cache_urls, cache_seal)} :
       /\ cache_urls' = c.urls /\ cache_seal' = c.seal
       /\ ret' = [op |-> "exhale_urls_page", offset |-> tl[t].offset, limit |-> limit,
                  page |-> PageOf(c.urls.list, tl[t].offset, limit), total |-> Len(c.urls.list),
                  seen |-> registry, committed |-> committed]
       /\ resp' = [route |-> "urls", status |-> 200, etag |-> _etag_from_seal(tl[t].seal),
                   state_seal |-> tl[t].seal,
                   total |-> Len(c.urls.list), offset |-> tl[t].offset, limit |-> limit,
                   urls |-> PageOf(c.urls.list, tl[t].offset, limit), from |-> c.urls.list,
                   inm |-> tl[t].inm, current |-> tl[t].current]
  /\ tl' = [tl EXCEPT ![t] = NoLocal]
  /\ tpc' = [tpc EXCEPT ![t] = "idle"]
  /\ UNCHANGED <<registry, cache_state, disk, lock, committed, sem, storeFrame>>

\* GET /state: s = _store_seal(store) and the If-None-Match test
StateRequest(t, inm) ==
  Revalidate(t, "state", inm, 0, "state", "state_body")

\* GET /state: store.get_state() and the response.
StateRespond(t) ==
  /\ tpc[t] = "state_body"
  /\ LockFree(lock)
  /\ \E c \in {_ensure_state_cache(registry, cache_urls, cache_seal, cache_state)} :
       /\ cache_urls' = c.urls /\ cache_seal' = c.seal /\ cache_state' = c.state
       /\ ret' = [op |-> "get_state", state |-> c.state, seen |-> registry, committed |-> committed]
       /\ resp' = [route |-> "state", status |-> 200, etag |-> _etag_from_seal(tl[t].seal),
                   state |-> c.state, inm |-> tl[t].inm, offset |-> 0,
                   current |-> tl[t].current]
  /\ tl' = [tl EXCEPT ![t] = NoLocal]
  /\ tpc' = [tpc EXCEPT ![t] = "idle"]
  /\ UNCHANGED <<registry, disk, lock, committed, sem, storeFrame>>

\* GET /exhale: s = _store_seal(store) and the If-None-Match test
ExhaleRequest(t, inm, mode) ==
  Revalidate(t, "exhale", inm, 0, mode, "exhale_body")

\* GET /exhale: store.exhale_urls() or store.get_state(), and the response.
ExhaleRespond(t) ==
  /\ tpc[t] = "exhale_body"
  /\ LockFree(lock)
  /\ IF tl[t].mode = "urls"
     THEN \E c \in {_ensure_urls_cache(registry, cache_urls, cache_seal)} :
            /\ cache_urls' = c.urls /\ cache_seal' = c.seal
            /\ UNCHANGED cache_state
            /\ ret' = [op |-> "exhale_urls", urls |-> c.urls.list,
                       seen |-> registry, committed |-> committed]
            /\ resp' = [route |-> "exhale", status |-> 200, etag |-> _etag_from_seal(tl[t].seal),
                        mode |-> "urls", urls |-> c.urls, state |-> NoState,
                        inm |-> tl[t].inm, offset |-> 0, current |-> tl[t].current]
     ELSE \E c \in {_ensure_state_cache(registry, cache_urls, cache_seal, cache_state)} :
            /\ cache_urls' = c.urls /\ cache_seal' = c.seal /\ cache_state' = c.state
            /\ ret' = [op |-> "get_state", state |-> c.state,
                       seen |-> registry, committed |-> committed]
            /\ resp' = [route |-> "exhale", status |-> 200, etag |-> _etag_from_seal(tl[t].seal),
                        mode |-> "state", urls |-> NoUrls, state |-> c.state,
                        inm |-> tl[t].inm, offset |-> 0, current |-> tl[t].current]
  /\ tl' = [tl EXCEPT ![t] = NoLocal]
  /\ tpc' = [tpc EXCEPT ![t] = "idle"]
  /\ UNCHANGED <<registry, disk, lock, committed, sem, storeFrame>>

NextThreads ==
  \E t \in Threads :
    \/ \E files \in ThreadBatches : InhaleRequest(t, files)
    \/ InhaleAcquire(t)
    \/ InhaleMergeFile(t)
    \/ InhalePrune(t)
    \/ InhaleRelease(t)
    \/ InhaleSave(t)
    \/ InhaleSeal(t)
    \/ InhaleState(t)
    \/ InhaleRespond(t)
    \/ SealRequest(t, NoHeader)
    \/ \E offset \in 0..MaxOffset : UrlsRequest(t, NoHeader, offset)
    \/ \E limit \in 1..MaxLimit : UrlsRespond(t, limit)
    \/ StateRequest(t, NoHeader)
    \/ StateRespond(t)

SpecThreads == InitThreads /\ [][NextThreads]_vars

\* The If-None-Match headers of the model: none, the ETag of the empty list,
\* the ETag of the list a.json leaves, and that seal without the quotes.
InmValues ==
  {NoHeader,
   _etag_from_seal(SealOf(EmptyRegistry)),
   _etag_from_seal(_compute_seal_from_urls(<<CanonicalOf(1)>>)),
   [bare |-> _compute_seal_from_urls(<<CanonicalOf(1)>>)]}

\* The GET routes with If-None-Match on two threads, while the first thread
\* also posts a.json to /inhale.
NextRevalidate ==
  \/ InhaleRequest("t1", <<FA>>)
  \/ \E t \in Threads :
    \/ InhaleAcquire(t)
    \/ InhaleMergeFile(t)
    \/ InhalePrune(t)
    \/ InhaleRelease(t)
    \/ InhaleSave(t)
    \/ InhaleSeal(t)
    \/ InhaleState(t)
    \/ InhaleRespond(t)
    \/ \E inm \in InmValues : SealRequest(t, inm)
    \/ \E inm \in InmValues, offset \in 0..MaxOffset : UrlsRequest(t, inm, offset)
    \/ UrlsRespond(t, MaxLimit)
    \/ \E inm \in InmValues : StateRequest(t, inm)
    \/ StateRespond(t)
    \/ \E inm \in InmValues, mode \in {"urls", "state"} : ExhaleRequest(t, inm, mode)
    \/ ExhaleRespond(t)

SpecRevalidate == InitThreads /\ [][NextRevalidate]_vars

-----------------------------------------------------------------------------
(* Claims about the store and the handlers under concurrency *)

ReadOps == {"exhale_urls", "exhale_urls_page", "get_seal", "get_state"}

\* C5: every store read returns what the registry left by the last finished
\* inhale_files gives: exhale_urls its ordered list, exhale_urls_page a page
\* and the length of that list, get_seal the seal of that list, get_state that
\* list and that seal; never values of an older registry, never a seal of
\* another list.
C5_ReadsCoherent ==
  /\ ret.op = "exhale_urls" => ret.urls = build_ordered_urls(ret.committed)
  /\ ret.op = "exhale_urls_page" =>
       /\ ret.page = PageOf(build_ordered_urls(ret.committed), ret.offset, ret.limit)
       /\ ret.total = Len(build_ordered_urls(ret.committed))
  /\ ret.op = "get_seal" =>
       ret.seal = _compute_seal_from_urls(build_ordered_urls(ret.committed))
  /\ ret.op = "get_state" =>
       /\ ret.state.urls = build_ordered_urls(ret.committed)
       /\ ret.state.state_seal = _compute_seal_from_urls(ret.state.urls)

\* C5 witness: a handler holds a seal it read earlier, an inhale_files that
\* changed the list has finished since, and a later get_seal returned another
\* seal.
C5_Witness ==
  /\ ret.op = "get_seal"
  /\ ret.committed # EmptyRegistry
  /\ \E t \in Threads :
       /\ tpc[t] \in {"urls_page", "state_body"}
       /\ tl[t].seal # ret.seal

\* C6: in every response of GET /urls, GET /state and POST /inhale the seal
\* sent (ETag and state_seal) is the seal of the ordered URL list the returned
\* page, total and state body were taken from.
C6_SealPairsWithBody ==
  /\ resp.route = "urls" =>
       /\ resp.state_seal = _compute_seal_from_urls(resp.from)
       /\ resp.etag = _etag_from_seal(resp.state_seal)
  /\ resp.route = "state" =>
       /\ resp.etag = _etag_from_seal(resp.state.state_seal)
       /\ resp.etag = _etag_from_seal(_compute_seal_from_urls(resp.state.urls))
  /\ resp.route = "inhale" =>
       /\ resp.etag = _etag_from_seal(resp.state.state_seal)
       /\ resp.etag = _etag_from_seal(_compute_seal_from_urls(resp.urls.list))

\* C7: at most one thread is inside the merge of inhale_files, and every store
\* read sees the registry as the last finished inhale_files left it: never a
\* batch merged in part, never a registry merged and not yet pruned.
C7_MergesAtomic ==
  /\ \A t1, t2 \in Threads :
       (tpc[t1] \in {"merge", "invalidate"} /\ tpc[t2] \in {"merge", "invalidate"}) => t1 = t2
  /\ ret.op \in ReadOps => ret.seen = ret.committed

\* C7 witness: a batch is merged in part, or merged and not yet pruned, while
\* another thread is about to read or to merge.
C7_Witness ==
  /\ registry # committed
  /\ \E t1, t2 \in Threads :
       /\ tpc[t1] \in {"merge", "invalidate"}
       /\ tpc[t2] \in {"urls_page", "state_body", "inhale_lock", "inhale_seal"}
  /\ ret.op \in ReadOps

-----------------------------------------------------------------------------
(* The merge engine on two payloads: both are merged in either order, then   *)
(* upserted one after the other under a URL the registry does not hold, and *)
(* then in the other order under a second URL.                              *)

\* The payloads handed to the merge engine: declared fields of both kinds,
\* missing and blank values, and an extra field that is set or an empty list.
MergePayloads ==
  {Payload(("pulse" :> pulse) @@ ("beat" :> beat) @@ ("chakraDay" :> chakraDay)
           @@ ("parentUrl" :> parentUrl) @@ extra) :
     pulse \in {NoneV} \cup {IntV(n) : n \in -1..MaxPulse},
     beat \in {NoneV, IntV(1)},
     chakraDay \in {NoneV, StrV(""), StrV("root"), StrV("crown")},
     parentUrl \in {NoneV, UrlV(CanonicalOf(1))},
     extra \in {[k \in {} |-> NoneV], ("note" :> StrV("n1")), ("note" :> ListV(0))}}

\* The URL the two payloads are upserted under.
MergeKey == CanonicalOf(2)

\* The URL they are upserted under the second time, pb first.
OtherKey == CanonicalOf(1)

StoreIdle ==
  /\ persist_path = FALSE
  /\ disk = NoDisk
  /\ prune_keep = 0
  /\ registry = EmptyRegistry
  /\ cache_urls = NoUrls /\ cache_seal = NoSeal /\ cache_state = NoState
  /\ n_inhales = 0
  /\ hist = NoHist(EmptyRegistry)
  /\ ret = NoCall
  /\ committed = registry
  /\ ThreadsIdle

InitMerge ==
  /\ StoreIdle
  /\ pa \in MergePayloads /\ pb \in MergePayloads
  /\ mpc = "start"
  /\ mab = EmptyPayload /\ mba = EmptyPayload
  /\ changed = <<>>
  /\ engine = EngineIdle
  /\ call = NoFunction

\* _merge_payload(pa, pb) and _merge_payload(pb, pa)
MergeBothWays ==
  /\ mpc = "start"
  /\ mab' = _merge_payload(pa, pb)
  /\ mba' = _merge_payload(pb, pa)
  /\ mpc' = "merged"
  /\ UNCHANGED <<storeVars, threadVars, pa, pb, changed, engine, call>>

\* upsert_payload(registry, url, pa), the URL absent
UpsertFirst ==
  /\ mpc = "merged"
  /\ committed' = committed
  /\ \E up \in {upsert_payload(registry, MergeKey, pa)} :
       /\ registry' = up.reg
       /\ changed' = Append(changed, up.changed)
  /\ mpc' = "first"
  /\ UNCHANGED <<prune_keep, cacheVars, persist_path, disk, n_inhales, hist, ret, pa, pb, mab, mba, engine, call, lock, tpc, tl, sem, resp>>

\* upsert_payload(registry, url, pb), the URL present
UpsertSecond ==
  /\ mpc = "first"
  /\ committed' = committed
  /\ \E up \in {upsert_payload(registry, MergeKey, pb)} :
       /\ registry' = up.reg
       /\ changed' = Append(changed, up.changed)
  /\ mpc' = "second"
  /\ UNCHANGED <<prune_keep, cacheVars, persist_path, disk, n_inhales, hist, ret, pa, pb, mab, mba, engine, call, lock, tpc, tl, sem, resp>>

\* upsert_payload(registry, other url, pb), the URL absent
UpsertThird ==
  /\ mpc = "second"
  /\ committed' = committed
  /\ \E up \in {upsert_payload(registry, OtherKey, pb)} :
       /\ registry' = up.reg
       /\ changed' = Append(changed, up.changed)
  /\ mpc' = "third"
  /\ UNCHANGED <<prune_keep, cacheVars, persist_path, disk, n_inhales, hist, ret, pa, pb, mab, mba, engine, call, lock, tpc, tl, sem, resp>>

\* upsert_payload(registry, other url, pa), the URL present
UpsertFourth ==
  /\ mpc = "third"
  /\ committed' = committed
  /\ \E up \in {upsert_payload(registry, OtherKey, pa)} :
       /\ registry' = up.reg
       /\ changed' = Append(changed, up.changed)
  /\ mpc' = "fourth"
  /\ UNCHANGED <<prune_keep, cacheVars, persist_path, disk, n_inhales, hist, ret, pa, pb, mab, mba, engine, call, lock, tpc, tl, sem, resp>>

NextMerge == MergeBothWays \/ UpsertFirst \/ UpsertSecond \/ UpsertThird \/ UpsertFourth

SpecMerge == InitMerge /\ [][NextMerge]_vars

-----------------------------------------------------------------------------
(* Claims about the merge engine *)

\* C8: when the kai tuples of two payloads differ, merging them gives the same
\* payload, extra fields included, whichever of the two is the stored one.
C8_MergeCommutes ==
  (mpc # "start" /\ kai_tuple_from_payload(pa) # kai_tuple_from_payload(pb)) => mab = mba

\* C8 witness: two payloads with different tuples were merged, each gave the
\* other a field, they disagree on a field and one carries an extra field.
C8_Witness ==
  /\ mpc = "merged"
  /\ kai_tuple_from_payload(pa) # kai_tuple_from_payload(pb)
  /\ mab # pa /\ mab # pb
  /\ ~_is_missing(pa["chakraDay"]) /\ ~_is_missing(pb["chakraDay"])
  /\ pa["chakraDay"] # pb["chakraDay"]
  /\ "note" \in DOMAIN mab

\* C9: merging a payload with itself gives that payload, and upserting the
\* same payload twice under an absent URL returns true, then false, the
\* registry after the second call being the registry after the first.
C9_SelfMergeAndUpsertTwice ==
  pa = pb =>
    /\ mpc # "start" => (mab = pa /\ mba = pa)
    /\ mpc = "first" => (changed = <<TRUE>> /\ registry = (MergeKey :> pa))
    /\ mpc = "second" => (changed = <<TRUE, FALSE>> /\ registry = (MergeKey :> pa))

\* C9 witness: the same payload, with fields set and fields missing, was
\* upserted twice.
C9_Witness ==
  /\ mpc = "second"
  /\ pa = pb
  /\ ~_is_missing(pa["chakraDay"])
  /\ _is_missing(pa["beat"])
  /\ MergeKey \in DOMAIN registry

\* C10: when the tuples differ the strictly greater one is the base, so every
\* field the newer payload sets has the newer payload's value in the stored
\* result, whichever of the two arrived first.
C10_NewerWins ==
  mpc = "second" =>
    /\ TupleGT(kai_tuple_from_payload(pa), kai_tuple_from_payload(pb)) =>
         \A k \in DOMAIN pa : ~_is_missing(pa[k]) => registry[MergeKey][k] = pa[k]
    /\ TupleGT(kai_tuple_from_payload(pb), kai_tuple_from_payload(pa)) =>
         \A k \in DOMAIN pb : ~_is_missing(pb[k]) => registry[MergeKey][k] = pb[k]

\* C10 witness: the newer payload arrived first and the older one, which sets
\* another value for a field the newer one sets, arrived second.
C10_Witness ==
  /\ mpc = "second"
  /\ TupleGT(kai_tuple_from_payload(pa), kai_tuple_from_payload(pb))
  /\ ~_is_missing(pa["chakraDay"]) /\ ~_is_missing(pb["chakraDay"])
  /\ pa["chakraDay"] # pb["chakraDay"]
  /\ registry[MergeKey] # pa

\* C11: when the tuples of the stored payload (pa) and the incoming one (pb)
\* tie, every field the strictly richer of the two sets keeps that payload's
\* value in the merge; when the richness scores tie as well, every field the
\* stored payload sets keeps the stored value.
C11_TieBreakByRichness ==
  (mpc # "start" /\ kai_tuple_from_payload(pa) = kai_tuple_from_payload(pb)) =>
    /\ _richness_score(pb) > _richness_score(pa) =>
         \A k \in DOMAIN pb : ~_is_missing(pb[k]) => mab[k] = pb[k]
    /\ _richness_score(pb) <= _richness_score(pa) =>
         \A k \in DOMAIN pa : ~_is_missing(pa[k]) => mab[k] = pa[k]
    /\ _richness_score(pb) = _richness_score(pa) =>
         \A k \in DOMAIN pb : ~_is_missing(pb[k]) => mba[k] = pb[k]

\* C11 witness: the tuples and the richness scores of two merged payloads tie
\* and the two set different values for a field.
C11_Witness ==
  /\ mpc = "merged"
  /\ kai_tuple_from_payload(pa) = kai_tuple_from_payload(pb)
  /\ _richness_score(pa) = _richness_score(pb)
  /\ ~_is_missing(pa["chakraDay"]) /\ ~_is_missing(pb["chakraDay"])
  /\ pa["chakraDay"] # pb["chakraDay"]
  /\ mab["chakraDay"] = pa["chakraDay"]

\* C12: one of the two payloads is the base and the merge equals it, key by
\* key, except where the base's value is missing and the other's is not, where
\* it holds the other's value; so a key that is not missing in either payload,
\* extras included, is not missing in the merge, and no value the base sets is
\* replaced.
C12_FillOnly ==
  mpc # "start" =>
    /\ \E bo \in {<<pa, pb>>, <<pb, pa>>} :
         \A k \in DOMAIN bo[1] \cup DOMAIN bo[2] \cup DOMAIN mab :
           IF _is_missing(Get(bo[1], k)) /\ ~_is_missing(Get(bo[2], k))
           THEN k \in DOMAIN mab /\ mab[k] = bo[2][k]
           ELSE (k \in DOMAIN mab <=> k \in DOMAIN bo[1])
                /\ (k \in DOMAIN mab => mab[k] = bo[1][k])
    /\ \A k \in DOMAIN pa \cup DOMAIN pb :
         (~_is_missing(Get(pa, k)) \/ ~_is_missing(Get(pb, k))) =>
           (k \in DOMAIN mab /\ ~_is_missing(mab[k]))

\* C12 witness: the merge took an extra field and a declared field from the
\* other payload, kept a value of the base the other payload sets differently,
\* and left a field missing that both lack.
C12_Witness ==
  /\ mpc = "merged"
  /\ mab # pa /\ mab # pb
  /\ \E b \in {pa, pb}, o \in {pa, pb} :
       /\ b # o
       /\ _is_missing(Get(b, "note")) /\ ~_is_missing(Get(o, "note"))
       /\ mab["note"] = o["note"]
       /\ IsNone(b["parentUrl"]) /\ mab["parentUrl"] = o["parentUrl"] /\ ~IsNone(o["parentUrl"])
       /\ ~_is_missing(b["chakraDay"]) /\ ~_is_missing(o["chakraDay"])
       /\ mab["chakraDay"] = b["chakraDay"] /\ b["chakraDay"] # o["chakraDay"]
       /\ IsNone(o["beat"]) /\ IsNone(b["beat"]) /\ IsNone(mab["beat"])

\* The URL of the upsert_payload call the driver makes next.
UpsertKey == IF mpc \in {"merged", "first"} THEN MergeKey ELSE OtherKey

\* C13: every upsert_payload call returns true exactly when the registry after
\* the call differs from the registry before it: true with the URL inserted
\* when it was absent, true when the merged payload differs in any field from
\* the stored one, false otherwise with the registry as it was; the entries
\* under other URLs are never touched.
C13_UpsertReportsChange ==
  [][Len(changed') = Len(changed) + 1 =>
       /\ changed'[Len(changed')] = (registry' # registry)
       /\ UpsertKey \notin DOMAIN registry =>
            (changed'[Len(changed')] /\ UpsertKey \in DOMAIN registry')
       /\ UpsertKey \in DOMAIN registry =>
            (changed'[Len(changed')] = (registry'[UpsertKey] # registry[UpsertKey]))
       /\ DOMAIN registry' = DOMAIN registry \cup {UpsertKey}
       /\ \A u \in DOMAIN registry \ {UpsertKey} : registry'[u] = registry[u]]_vars

\* C13 witness: four calls were made; the two under absent URLs returned
\* true, one under a present URL returned false and left the stored payload,
\* the other returned true and stored a merge that differs from it.
C13_Witness ==
  /\ mpc = "fourth"
  /\ changed = <<TRUE, FALSE, TRUE, TRUE>>
  /\ registry[MergeKey] = pa
  /\ registry[OtherKey] # pb
  /\ kai_tuple_from_payload(registry[OtherKey]) = kai_tuple_from_payload(pb)

-----------------------------------------------------------------------------
(* inhale_files_into_registry one hit at a time: the steps of the loop over  *)
(* the hits of a file, on files whose URLs carry a witness chain (add=).    *)

\* A leaf URL https://k.example/stream/p/<tok>?add=<chain>.
LeafUrl(tok, chain) == Url("https", "k.example", "/stream/p/", tok, chain)

\* w.json: the leaf of token 5 (no topology of its own) with the chain
\* /p~<t1>, <t2>.  v.json: the leaf of token 3, which names token 4 as its
\* parent, with the chain of the URLs of tokens 1 and 2.  t.json: the leaf of
\* token 1 with a chain whose root token does not decode.
FW == [name |-> "w.json", valid |-> TRUE,
       leaves |-> <<UrlV(LeafUrl(5, <<Url("", "", "/p~", 1, <<>>), Url("", "", "bare", 2, <<>>)>>))>>]
FV == [name |-> "v.json", valid |-> TRUE,
       leaves |-> <<UrlV(LeafUrl(3, <<CanonicalOf(1), CanonicalOf(2)>>))>>]
FT == [name |-> "t.json", valid |-> TRUE,
       leaves |-> <<UrlV(LeafUrl(1, <<CanonicalOf(6), Url("", "", "bare", 2, <<>>)>>))>>]

HitFiles == {FA, FB, FC, FD, FW, FV, FT}

InitHit == StoreIdle /\ MergeIdle

hitFrame == <<prune_keep, cacheVars, persist_path, disk, hist, ret, threadVars,
              pa, pb, mpc, mab, mba, changed, call>>

\* obj = loads_json_bytes(blob); hits = extract_many_payloads_from_any(obj)
HitFile(file) ==
  /\ engine.pc = "next"
  /\ engine.i = Len(engine.hits)
  /\ n_inhales < MaxInhales
  /\ n_inhales' = n_inhales + 1
  /\ engine' = [EngineIdle EXCEPT !.hits = extract_many_payloads_from_any(file.leaves)]
  /\ UNCHANGED <<registry, hitFrame>>

\* The next hit: url_key = canonicalize_url(hit.url_key), ctx =
\* derive_witness_context(url_key), merged_leaf = merge_derived_context(...);
\* a hit whose key is empty is passed over.
HitDerive ==
  /\ engine.pc = "next"
  /\ engine.i < Len(engine.hits)
  /\ \E hit \in {engine.hits[engine.i + 1]} :
       \E url_key \in {canonicalize_url(hit.url_key)} :
         \E ctx \in {derive_witness_context(url_key)} :
           engine' = IF url_key = EmptyUrl
                     THEN [engine EXCEPT !.i = @ + 1]
                     ELSE [engine EXCEPT !.i = @ + 1, !.pc = "derived", !.url_key = url_key,
                                         !.ctx = ctx,
                                         !.merged_leaf = merge_derived_context(hit.payload, ctx)]
  /\ UNCHANGED <<registry, n_inhales, hitFrame>>

\* merged_leaf = _canonicalize_topology(merged_leaf); upsert_payload(...)
HitUpsert ==
  /\ engine.pc = "derived"
  /\ registry' = upsert_payload(registry, engine.url_key,
                                _canonicalize_topology(engine.merged_leaf)).reg
  /\ engine' = [engine EXCEPT !.pc = "upserted"]
  /\ UNCHANGED <<n_inhales, hitFrame>>

\* if ctx.chain: synthesize_edges_from_witness_chain(ctx.chain, url_key, reg)
HitSynthesize ==
  /\ engine.pc = "upserted"
  /\ registry' = IF engine.ctx.chain # <<>>
                 THEN synthesize_edges_from_witness_chain(engine.ctx.chain, engine.url_key,
                                                          registry).reg
                 ELSE registry
  /\ engine' = [engine EXCEPT !.pc = "synthesized"]
  /\ UNCHANGED <<n_inhales, hitFrame>>

\* _stitch_explicit_parent_chain(reg, url_key)
HitStitch ==
  /\ engine.pc = "synthesized"
  /\ registry' = _stitch_explicit_parent_chain(registry, engine.url_key).reg
  /\ engine' = [engine EXCEPT !.pc = "next"]
  /\ UNCHANGED <<n_inhales, hitFrame>>

NextHit ==
  \/ \E file \in HitFiles : HitFile(file)
  \/ HitDerive
  \/ HitUpsert
  \/ HitSynthesize
  \/ HitStitch

SpecHit == InitHit /\ [][NextHit]_vars

-----------------------------------------------------------------------------
(* Claims about the witness chain and the stitching *)

TopologyFields == {"originUrl", "parentUrl"}

\* The payload after differs from the payload before only in topology fields
\* that were missing before.
OnlyFills(before, after) ==
  /\ DOMAIN after = DOMAIN before
  /\ \A k \in DOMAIN before :
       after[k] # before[k] => (k \in TopologyFields /\ _is_missing(before[k]))

\* C19: merging the derived witness context into the payload of a hit only
\* fills topology fields the payload is missing, and the witness synthesis and
\* the parent stitching only insert URLs the registry lacks and fill missing
\* topology fields: no field that is set, of the payload or of a stored entry,
\* changes its value.
C19_ExplicitFieldsKept ==
  [][/\ (engine.pc = "next" /\ engine'.pc = "derived") =>
          OnlyFills(engine.hits[engine'.i].payload, engine'.merged_leaf)
     /\ engine.pc \in {"upserted", "synthesized"} =>
          \A u \in DOMAIN registry :
            u \in DOMAIN registry' /\ OnlyFills(registry[u], registry'[u])]_vars

\* C19 witness: the second file held a leaf with a witness chain and a parent
\* of its own; the leaf kept its parent and took the chain's root as origin,
\* the synthesis inserted a chain URL, and the stitching met the parent as an
\* entry stored before, with its origin as it was canonicalised then.
C19_Witness ==
  /\ n_inhales = 2
  /\ engine.pc = "next" /\ engine.i = 1 /\ Len(engine.hits) = 1
  /\ engine.url_key = LeafUrl(3, <<CanonicalOf(1), CanonicalOf(2)>>)
  /\ engine.url_key \in DOMAIN registry
  /\ registry[engine.url_key]["parentUrl"] = UrlV(CanonicalOf(4))
  /\ registry[engine.url_key]["originUrl"] = UrlV(CanonicalOf(1))
  /\ CanonicalOf(2) \in DOMAIN registry
  /\ CanonicalOf(4) \in DOMAIN registry
  /\ registry[CanonicalOf(4)]["originUrl"] = UrlV(CanonicalOf(1))

\* Every URL of the chain of a leaf carries a token that decodes.
ChainDecodes(leaf) == \A i \in 1..Len(leaf.add) : extract_payload_from_url(leaf.add[i]).found

\* The keys a leaf with a chain must leave: its own and the chain's.
ChainKeys(leaf) == {leaf} \cup {canonicalize_url(leaf.add[i]) : i \in 1..Len(leaf.add)}

\* No payload decoded from a key of S names a parent or an origin itself.
NoTopology(S) ==
  \A u \in S : \A k \in TopologyFields : _is_missing(extract_payload_from_url(u).payload[k])

\* C20: once a file holding a leaf URL with a witness chain u1 .. un of
\* decodable tokens is merged into an empty registry, the registry holds the
\* leaf and every chain URL (and nothing else when none of their payloads
\* names an ancestor itself); the leaf's parentUrl is canonicalize(un) and its
\* originUrl canonicalize(u1) where its payload did not set them.
C20_WitnessChain ==
  (n_inhales = 1 /\ engine.pc = "next" /\ engine.i = Len(engine.hits)) =>
    \A j \in 1..Len(engine.hits) :
      \A leaf \in {engine.hits[j].url_key} :
        (leaf.add # <<>> /\ ChainDecodes(leaf)) =>
          /\ ChainKeys(leaf) \subseteq DOMAIN registry
          /\ (Len(engine.hits) = 1 /\ NoTopology(ChainKeys(leaf))) =>
               DOMAIN registry = ChainKeys(leaf)
          /\ _is_missing(engine.hits[j].payload["parentUrl"]) =>
               registry[leaf]["parentUrl"] = UrlV(canonicalize_url(leaf.add[Len(leaf.add)]))
          /\ _is_missing(engine.hits[j].payload["originUrl"]) =>
               registry[leaf]["originUrl"] = UrlV(canonicalize_url(leaf.add[1]))

\* C20 witness: the leaf of token 5 with the chain /p~<t1>, <t2> was merged
\* into the empty registry: three entries, the leaf's parent the URL of token
\* 2 and its origin the URL of token 1.
C20_Witness ==
  /\ n_inhales = 1
  /\ engine.pc = "next" /\ engine.i = 1 /\ Len(engine.hits) = 1
  /\ engine.url_key = LeafUrl(5, <<Url("", "", "/p~", 1, <<>>), Url("", "", "bare", 2, <<>>)>>)
  /\ DOMAIN registry = {engine.url_key, CanonicalOf(1), CanonicalOf(2)}
  /\ registry[engine.url_key]["parentUrl"] = UrlV(CanonicalOf(2))
  /\ registry[engine.url_key]["originUrl"] = UrlV(CanonicalOf(1))

-----------------------------------------------------------------------------
(* Claims about the store, one call at a time *)

\* The seal a reader gets in the present state.
SealNow == _ensure_urls_cache(registry, cache_urls, cache_seal).seal

\* C1: the list exhale_urls returns is sorted by kai tuple, newest first, and
\* URLs whose tuples tie stand in ascending URL order.
C1_SortedTiesAscending ==
  ret.op = "exhale_urls" =>
    \A i, j \in 1..Len(ret.urls) :
      i < j =>
        \/ TupleGT(kai_tuple_from_payload(registry[ret.urls[i]]),
                   kai_tuple_from_payload(registry[ret.urls[j]]))
        \/ /\ kai_tuple_from_payload(registry[ret.urls[i]])
                = kai_tuple_from_payload(registry[ret.urls[j]])
           /\ UrlLT(ret.urls[i], ret.urls[j])

\* C2: an inhale_files call that repeats the call before it leaves the
\* registry, and with it the ordered URL list and the seal, as the first call
\* left them.
C2_BatchIdempotent ==
  hist.repeat =>
    /\ registry = hist.reg_before
    /\ build_ordered_urls(registry) = build_ordered_urls(hist.reg_before)
    /\ SealNow = hist.seal_before

\* C3: the registry an inhale_files call leaves is the same for every
\* reordering of the files of the batch and of the hits inside them.
C3_OrderIndependent ==
  n_inhales > 0 => hist.perms = {registry}

\* C4: whenever an inhale_files call changes the registry (a key added or
\* removed, or a stored payload changed) the seal after the call differs from
\* the seal before it.
C4_SealTracksRegistry ==
  (n_inhales > 0 /\ registry # hist.reg_before) => SealNow # hist.seal_before

\* The largest i-th component of the kai tuples of a registry's payloads.
LargestComponent(reg, i) == MaxOf({kai_tuple_from_payload(reg[u])[i] : u \in DOMAIN reg})

\* C14: the latest moment get_state returns is the componentwise maximum over
\* the payloads of the registry: the largest pulse, the largest beat and the
\* largest stepIndex; (0, 0, 0) for an empty registry.
C14_LatestComponentwiseMax ==
  ret.op = "get_state" =>
    ret.state.latest =
      IF registry = EmptyRegistry THEN <<0, 0, 0>>
      ELSE <<LargestComponent(registry, 1), LargestComponent(registry, 2),
             LargestComponent(registry, 3)>>

\* C15: whatever KAI_REGISTRY_KEEP is, the report inhale_files returns holds
\* in registry_urls the number of entries the registry has when the call
\* returns (the total a reader gets next) and in latest_pulse the largest
\* pulse of that registry.
C15_ReportCountsRegistry ==
  ret.op = "inhale" =>
    /\ ret.report.registry_urls = Cardinality(DOMAIN registry)
    /\ ret.report.registry_urls = Len(_ensure_urls_cache(registry, cache_urls, cache_seal).urls.list)
    /\ ret.report.latest_pulse = LatestPulse(registry)

\* C16: with KAI_REGISTRY_KEEP = N > 0 the registry after inhale_files holds
\* at most N entries, the first N URLs of the ordered list of the merged
\* registry; no kept entry has a smaller kai tuple than a dropped one, and the
\* kept payloads are the merged ones.
C16_PruneKeepsNewest ==
  (n_inhales > 0 /\ prune_keep > 0) =>
    /\ Cardinality(DOMAIN registry) <= prune_keep
    /\ DOMAIN registry =
         {build_ordered_urls(hist.merged)[i] :
            i \in 1..(IF Cardinality(DOMAIN hist.merged) < prune_keep
                      THEN Cardinality(DOMAIN hist.merged) ELSE prune_keep)}
    /\ \A u \in DOMAIN registry : registry[u] = hist.merged[u]
    /\ \A u \in DOMAIN registry : \A d \in DOMAIN hist.merged \ DOMAIN registry :
         ~TupleLT(kai_tuple_from_payload(hist.merged[u]), kai_tuple_from_payload(hist.merged[d]))

\* C16 witness: the merge left more entries than KAI_REGISTRY_KEEP and the
\* entry with the smallest tuple was dropped.
C16_Witness ==
  /\ n_inhales > 0
  /\ prune_keep = 2
  /\ Cardinality(DOMAIN hist.merged) > prune_keep
  /\ Cardinality(DOMAIN registry) = prune_keep
  /\ \E d \in DOMAIN hist.merged \ DOMAIN registry : \A u \in DOMAIN registry :
       TupleLT(kai_tuple_from_payload(hist.merged[d]), kai_tuple_from_payload(registry[u]))

\* C17: with KAI_REGISTRY_KEEP = 0 no step removes a URL from the registry:
\* the keys after a step include the keys before it; a stored payload changes
\* only in an inhale_files call, and then as a merge changes it: every field
\* it set stays set.
C17_NothingRemovedWithoutPruning ==
  [][prune_keep = 0 =>
       /\ DOMAIN registry \subseteq DOMAIN registry'
       /\ \A u \in DOMAIN registry :
            registry'[u] # registry[u] =>
              /\ n_inhales' = n_inhales + 1
              /\ \A k \in DOMAIN registry[u] :
                   ~_is_missing(registry[u][k]) =>
                     (k \in DOMAIN registry'[u] /\ ~_is_missing(registry'[u][k]))]_vars

\* C17 witness: without pruning, an inhale_files call found an entry in the
\* registry, changed it by a merge and added no key.
C17_Witness ==
  /\ prune_keep = 0
  /\ n_inhales > 0
  /\ DOMAIN hist.reg_before = DOMAIN registry
  /\ \E u \in DOMAIN hist.reg_before : registry[u] # hist.reg_before[u]

\* The files of a batch that load as JSON, in order.
GoodFiles(files) == SelectSeq(files, LAMBDA f : f.valid)

\* What the last inhale_files call did, against r, the outcome of merging only
\* the loadable files of its batch into the registry it found, and bad, the
\* number of files that do not load.
SameAsWithout(r, bad) ==
  /\ ret.report.crystals_failed = bad
  /\ Len(ret.report.errors) = bad
  /\ hist.merged = r.reg
  /\ registry = _maybe_prune(r.reg, prune_keep)
  /\ ret.report.crystals_total = r.report.crystals_total
  /\ ret.report.crystals_imported = r.report.crystals_imported
  /\ ret.report.registry_urls = r.report.registry_urls
  /\ ret.report.latest_pulse = r.report.latest_pulse

\* C18: each file of a batch that is not UTF-8 JSON adds one to crystals_failed
\* and one error string and nothing else; the other files are merged, and the
\* report is filled, as if the batch held only them, and inhale_files returns
\* its report.
C18_BadFileSkipped ==
  (ret.op = "inhale" /\ \E i \in 1..Len(hist.files) : ~hist.files[i].valid) =>
    SameAsWithout(inhale_files_into_registry(hist.reg_before, GoodFiles(hist.files)),
                  Len(hist.files) - Len(GoodFiles(hist.files)))

\* C18 witness: a batch whose first file does not load and whose second file
\* holds a URL the registry lacked was inhaled; the URL is stored and one
\* failure is reported.
C18_Witness ==
  /\ ret.op = "inhale"
  /\ hist.files = <<FX, FA>>
  /\ CanonicalOf(1) \notin DOMAIN hist.reg_before
  /\ CanonicalOf(1) \in DOMAIN registry
  /\ ret.report.crystals_failed = 1
  /\ ret.report.crystals_imported = 1
  /\ ret.report.errors = <<"x.json">>

\* The URLs of list from position max(0, offset), at most max(1, limit) of them.
SliceOf(list, offset, limit) ==
  LET o == IF offset > 0 THEN offset ELSE 0
      l == IF limit > 1 THEN limit ELSE 1
      n == IF Len(list) - o <= 0 THEN 0 ELSE IF Len(list) - o < l THEN Len(list) - o ELSE l
  IN [i \in 1..n |-> list[o + i]]

\* The pages exhale_urls_page gives at the offsets 0, limit, 2 * limit, ...
\* put one after the other.
ConcatPages(list, limit) ==
  LET pages[k \in 0..Len(list)] ==
        IF k = 0 THEN PageOf(list, 0, limit)
        ELSE pages[k - 1] \o PageOf(list, k * limit, limit)
  IN pages[Len(list)]

\* What exhale_urls_page returned and the pages of the present list, against
\* list, the ordered URL list of the registry.
PagesOf(list) ==
  /\ ret.op = "exhale_urls_page" =>
       /\ ret.total = Len(list)
       /\ ret.page = SliceOf(list, ret.offset, ret.limit)
       /\ ret.offset >= Len(list) => ret.page = <<>>
  /\ \A limit \in 1..MaxLimit :
       /\ ConcatPages(list, limit) = list
       /\ \A offset \in Len(list)..(Len(list) + MaxOffset) : PageOf(list, offset, limit) = <<>>

\* C26: exhale_urls_page(offset, limit) returns the URLs of the ordered list
\* from position max(0, offset), at most max(1, limit) of them, and the length
\* of the whole list; the pages at offsets 0, limit, 2 * limit, ... put
\* together are the list exhale_urls returns, and a page at or beyond the end
\* is empty.
C26_PagesCoverList ==
  PagesOf(build_ordered_urls(registry))

\* C26 witness: a page that starts inside a list of three or more URLs and
\* ends before its end was returned.
C26_Witness ==
  /\ ret.op = "exhale_urls_page"
  /\ ret.offset = 1 /\ ret.limit = 1
  /\ ret.total >= 3
  /\ Len(ret.page) = 1

-----------------------------------------------------------------------------
(* Claims about persistence *)

\* What an inhale_files call and a read return, from the registry in memory
\* alone, whatever the disk holds.
InMemoryOnly ==
  /\ n_inhales' = n_inhales + 1 =>
       \E rep \in {inhale_files_into_registry(registry, hist'.files)} :
         /\ ret'.op = "inhale"
         /\ "report" \in DOMAIN ret'
         /\ ret'.report = rep.report
         /\ hist'.merged = rep.reg
         /\ registry' = _maybe_prune(rep.reg, prune_keep)
  /\ (n_inhales' = n_inhales /\ ret'.op = "exhale_urls") =>
       /\ registry' = registry
       /\ ret'.urls = build_ordered_urls(registry)

\* C21: a failed save never reaches the caller: whatever the save leaves on
\* disk, inhale_files returns its report, the registry in memory is the
\* merged one, and every later read and inhale_files call works from that
\* registry as it would after a successful save.
C21_SaveFailureHidden ==
  [][InMemoryOnly]_vars

\* C21 witness: two inhale_files calls whose saves both failed (the state file
\* is still missing), the second one changing the registry, and a read after
\* them that returns the list of the merged registry.
C21_Witness ==
  /\ n_inhales = 2
  /\ hist.save_failed
  /\ disk.main = AbsentFile
  /\ hist.reg_before # EmptyRegistry
  /\ registry # hist.reg_before
  /\ ret.op = "exhale_urls"
  /\ ret.urls = build_ordered_urls(hist.merged)

\* C22: when a save fails at one of its steps, the state file and its .bak
\* snapshot are as they were before the save began.
C22_FailedSaveLeavesDisk ==
  [][(n_inhales' = n_inhales + 1 /\ hist'.save_failed) =>
       (disk'.main = disk.main /\ disk'.bak = disk.bak)]_vars

\* The entries of a snapshot's registry that load: the key is not blank and
\* the payload validates.
UsableEntries(reg) ==
  {u \in DOMAIN reg : u # EmptyUrl /\ model_validate(reg[u]).ok}

\* The registry after start-up is made of the usable entries of src.
LoadedFrom(src) ==
  /\ DOMAIN registry = UsableEntries(src)
  /\ \A u \in DOMAIN registry : registry[u] = model_validate(src[u]).payload

\* C23: at start-up with a state path the registry is that of the main file
\* when the main file parses to a JSON object, that of the .bak file when the
\* main file is missing or is no JSON object, and empty when neither file
\* gives a registry; entries that do not validate are dropped one by one and
\* the others are kept.
C23_LoadMainThenBackup ==
  (persist_path /\ n_inhales = 0) =>
    LoadedFrom(IF _load_json_file_best_effort(disk.main) THEN disk.main.registry
               ELSE IF _load_json_file_best_effort(disk.bak) THEN disk.bak.registry
               ELSE EmptyRegistry)

\* C23 witness: the main file is corrupt and the backup holds one entry that
\* validates and one that does not; the registry holds the first alone.
C23_Witness ==
  /\ n_inhales = 0
  /\ disk.main = CorruptFile
  /\ disk.bak = SnapshotFile(RB)
  /\ DOMAIN registry = {CanonicalOf(1)}
  /\ ret.op = "exhale_urls"

-----------------------------------------------------------------------------
(* The functions of url_extract.py and payload.py called on their own: the  *)
(* argument is drawn at the start and call.out collects what the calls      *)
(* return.                                                                  *)

\* URL strings in every accepted raw form: a bare token, the short routes
\* /p~<token> and /stream/p~<token>, relative and absolute URLs in either
\* letter case, with and without a query, and the empty string.
UrlInputs ==
  {EmptyUrl}
  \cup {Url("", "", "bare", tok, <<>>) : tok \in {1, 6}}
  \cup {Url(f[1], f[2], route, tok, add) :
          f \in {<<"", "">>, <<"https", "k.example">>, <<"HTTPS", "K.EXAMPLE">>,
                 <<"https", "K.EXAMPLE">>},
          route \in {"/p~", "/stream/p~", "/stream/p/", "/stream/c/"},
          tok \in {1, 6, 12},
          add \in {<<>>, <<CanonicalOf(1)>>}}

\* Decoded JSON objects over canonical keys and their aliases.
AliasKeys == {"pulse", "u", "stepIndex", "s", "step", "chakraDay", "c"}
AliasValues == {IntV(1), StrV("x"), NoneV}
DictInputs == UNION {[K -> AliasValues] : K \in SUBSET AliasKeys}

\* URLs of every token of the model, canonical, bare and by the short route.
TokenUrls ==
  {CanonicalOf(tok) : tok \in 1..11}
  \cup {Url("", "", route, tok, <<>>) : route \in {"bare", "/p~"}, tok \in 1..11}

\* Registries for the parent walk.  The small ones hold the URLs of tokens 1
\* and 2; the parent of either is nothing, a blank text, the URL of token 1,
\* the bare token 2, /p~<token 3> (not stored, decodes, and names a parent of
\* its own) or a URL whose token does not decode, so that the links may form
\* a cycle of one or two URLs.  The long one is a chain of ChainLength URLs,
\* each the parent of the one before.
LinkPayload(origin, parent) ==
  Payload(("pulse" :> IntV(1)) @@ ("originUrl" :> origin) @@ ("parentUrl" :> parent))

StitchLinks ==
  {NoneV, StrV(" "), UrlV(CanonicalOf(1)), UrlV(Url("", "", "bare", 2, <<>>)),
   UrlV(Url("", "", "/p~", 3, <<>>)), UrlV(CanonicalOf(6))}

SmallRegistries ==
  {(CanonicalOf(1) :> LinkPayload(o1, p1)) @@ (CanonicalOf(2) :> LinkPayload(NoneV, p2)) :
     o1 \in {NoneV, UrlV(Url("", "", "/p~", 5, <<>>))}, p1 \in StitchLinks, p2 \in StitchLinks}

ChainLength == 130

LongChain ==
  [u \in {CanonicalOf(100 + i) : i \in 1..ChainLength} |->
     LinkPayload(NoneV, IF u.tok < 100 + ChainLength THEN UrlV(CanonicalOf(u.tok + 1)) ELSE NoneV)]

StitchInputs ==
  {[reg |-> reg, start_url |-> u] :
     reg \in SmallRegistries, u \in {CanonicalOf(1), CanonicalOf(2), CanonicalOf(5)}}
  \cup {[reg |-> LongChain, start_url |-> CanonicalOf(100 + i)] : i \in {1, 10}}

InitPure ==
  /\ StoreIdle
  /\ pa = EmptyPayload /\ pb = EmptyPayload
  /\ mpc = "idle"
  /\ mab = EmptyPayload /\ mba = EmptyPayload
  /\ changed = <<>>
  /\ engine = EngineIdle
  /\ call \in {[fn |-> "canonicalize_url", arg |-> u, out |-> <<>>] : u \in UrlInputs}
            \cup {[fn |-> "_normalize_aliases", arg |-> d, out |-> <<>>] : d \in DictInputs}
            \cup {[fn |-> "extract_payload_from_url", arg |-> u, out |-> <<>>] : u \in TokenUrls}
            \cup {[fn |-> "_stitch_explicit_parent_chain", arg |-> a, out |-> <<>>] : a \in StitchInputs}

pureFrame == <<storeVars, threadVars, pa, pb, mpc, mab, mba, changed, engine>>

\* canonicalize_url(arg), and canonicalize_url of what that returned.
Canonicalize ==
  /\ call.fn = "canonicalize_url"
  /\ Len(call.out) < 2
  /\ call' = [call EXCEPT !.out = Append(call.out,
                 canonicalize_url(IF call.out = <<>> THEN call.arg ELSE call.out[1]))]
  /\ UNCHANGED pureFrame

\* SigilPayloadLoose._normalize_aliases(arg)
NormalizeAliases ==
  /\ call.fn = "_normalize_aliases"
  /\ call.out = <<>>
  /\ call' = [call EXCEPT !.out = <<_normalize_aliases(call.arg)>>]
  /\ UNCHANGED pureFrame

\* extract_payload_from_url(arg)
ExtractPayload ==
  /\ call.fn = "extract_payload_from_url"
  /\ call.out = <<>>
  /\ call' = [call EXCEPT !.out = <<extract_payload_from_url(call.arg)>>]
  /\ UNCHANGED pureFrame

\* _stitch_explicit_parent_chain(arg.reg, arg.start_url)
StitchChain ==
  /\ call.fn = "_stitch_explicit_parent_chain"
  /\ call.out = <<>>
  /\ call' = [call EXCEPT !.out = <<_stitch_explicit_parent_chain(call.arg.reg, call.arg.start_url)>>]
  /\ UNCHANGED pureFrame

NextPure ==
  \/ Canonicalize
  \/ NormalizeAliases
  \/ ExtractPayload
  \/ StitchChain

SpecPure == InitPure /\ [][NextPure]_vars

\* C27: canonicalize_url is idempotent: for every input string and the base
\* origin of the model, canonicalize_url of what canonicalize_url returned is
\* what it returned.
C27_CanonicalizeIdempotent ==
  (call.fn = "canonicalize_url" /\ Len(call.out) = 2) => call.out[2] = call.out[1]

\* C27 witness: an absolute URL in upper case with the short route, a token
\* that quoting changes and a query was canonicalised twice.
C27_Witness ==
  /\ call.fn = "canonicalize_url"
  /\ Len(call.out) = 2
  /\ call.arg.scheme = "HTTPS" /\ call.arg.route = "/p~"
  /\ call.arg.tok = 12 /\ call.arg.add # <<>>
  /\ call.out[1] = Url("https", "k.example", "/stream/p/", 13, call.arg.add)

\* The aliases of each canonical key.
AliasesOf(k) ==
  CASE k = "pulse" -> {"u"}
    [] k = "beat" -> {"b"}
    [] k = "stepIndex" -> {"s", "step_index", "step"}
    [] k = "chakraDay" -> {"c", "chakra_day"}
    [] k = "kaiSignature" -> {"kai_signature"}
    [] k = "originUrl" -> {"origin_url"}
    [] k = "parentUrl" -> {"parent_url"}
    [] OTHER -> {}

\* n adds to d nothing but canonical keys d lacks, each with the value of one
\* of its aliases in d.
Additive(d, n) ==
  /\ \A k \in DOMAIN d : k \in DOMAIN n /\ n[k] = d[k]
  /\ \A k \in DOMAIN n \ DOMAIN d : \E a \in AliasesOf(k) \cap DOMAIN d : n[k] = d[a]

\* C28: alias normalisation is additive: every key of the input, canonical or
\* alias, keeps its value, and a key the result adds is a canonical key the
\* input lacks, with the value of one of its aliases.
C28_AliasesAdditive ==
  (call.fn = "_normalize_aliases" /\ call.out # <<>>) => Additive(call.arg, call.out[1])

\* C28 witness: the input holds a pulse that is no integer next to its alias
\* u, and the alias s without stepIndex; the pulse is kept and stepIndex is
\* copied from s.
C28_Witness ==
  /\ call.fn = "_normalize_aliases" /\ call.out # <<>>
  /\ DOMAIN call.arg = {"pulse", "u", "s"}
  /\ call.arg["pulse"] = StrV("x") /\ call.arg["u"] = IntV(1) /\ call.arg["s"] = IntV(1)
  /\ DOMAIN call.out[1] = {"pulse", "u", "s", "stepIndex"}
  /\ call.out[1]["stepIndex"] = IntV(1)

\* The logical-time tuple of a decoded object: a component that is missing or
\* no integer counts as 0, a float as its truncated integer.
CoercedTuple(n) ==
  <<_safe_int(Get(n, "pulse")), _safe_int(Get(n, "beat")), _safe_int(Get(n, "stepIndex"))>>

\* C29: every URL whose token decodes to a JSON object is ingested, whatever
\* its pulse, beat and stepIndex are, and its logical-time tuple counts a
\* component that is missing or no integer as 0 and a float as its truncated
\* integer.
C29_CoercionTotal ==
  (call.fn = "extract_payload_from_url" /\ call.out # <<>> /\ TokenDecodes(call.arg.tok)) =>
    /\ call.out[1].found
    /\ kai_tuple_from_payload(call.out[1].payload)
         = CoercedTuple(_normalize_aliases(TokenObj(call.arg.tok)))

-----------------------------------------------------------------------------
(* Claims about the HTTP adapter *)

\* The response carries the body of its route.
FullBody ==
  CASE resp.route = "seal" -> "seal" \in DOMAIN resp
    [] resp.route = "urls" -> "urls" \in DOMAIN resp /\ "total" \in DOMAIN resp
    [] resp.route = "state" -> "state" \in DOMAIN resp /\ resp.state # NoState
    [] resp.route = "exhale" ->
         IF resp.mode = "urls" THEN resp.urls # NoUrls ELSE resp.state # NoState
    [] OTHER -> FALSE

\* C24: GET /seal, GET /state and GET /exhale answer 304 exactly when the
\* request's If-None-Match is the quoted seal the store holds when the handler
\* reads it, GET /urls only when in addition offset = 0; every other response
\* carries the full body; the ETag header is that quoted seal in both cases.
C24_Revalidation ==
  resp.route \in {"seal", "state", "urls", "exhale"} =>
    /\ resp.etag = _etag_from_seal(resp.current)
    /\ resp.status \in {200, 304}
    /\ resp.status = 304 <=>
         /\ resp.inm = _etag_from_seal(resp.current)
         /\ resp.route = "urls" => resp.offset = 0
    /\ resp.status = 200 => FullBody
    /\ resp.status = 304 => DOMAIN resp = DOMAIN _resp_304("", "", "", 0, "")

\* C24 witness: after an inhale GET /urls at offset 0 with the current ETag
\* was answered 304, while a GET /urls with the same header and the same seal
\* at offset 1 goes on to fetch its page.
C24_Witness ==
  /\ resp.route = "urls" /\ resp.status = 304
  /\ resp.current # SealOf(EmptyRegistry)
  /\ ret.op = "get_seal"
  /\ \E t \in Threads :
       /\ tpc[t] = "urls_page"
       /\ tl[t].inm = resp.inm
       /\ tl[t].offset = 1
       /\ tl[t].seal = resp.current

-----------------------------------------------------------------------------
(* POST /inhale behind a semaphore of KAI_MAX_CONCURRENT_INHALES permits:   *)
(* requests whose parts are acceptable, empty or too large, or whose form   *)
(* cannot be read.                                                          *)

\* KAI_MAX_CONCURRENT_INHALES of this deployment.
KAI_MAX_CONCURRENT_INHALES == 1

IngressPermits == MaxConcurrentInhales(KAI_MAX_CONCURRENT_INHALES)

IngressRequests ==
  {[uploads |-> u, broken |-> FALSE, max_bytes |-> MaxBytes] :
     u \in {<<>>,
            <<Upload(FA, MaxBytes + 1), Upload(FB, 0)>>,
            <<Upload(FA, MaxBytes)>>,
            <<Upload(FA, MaxBytes + 1), Upload(FC, MaxBytes), Upload(FB, 0)>>}}
  \cup {[uploads |-> <<>>, broken |-> TRUE, max_bytes |-> MaxBytes]}

InitIngress ==
  /\ persist_path = TRUE
  /\ disk = NoDisk
  /\ prune_keep = 0
  /\ registry = EmptyRegistry
  /\ cache_urls = NoUrls /\ cache_seal = NoSeal /\ cache_state = NoState
  /\ n_inhales = 0
  /\ hist = NoHist(EmptyRegistry)
  /\ ret = NoCall
  /\ committed = registry
  /\ HandlersIdle
  /\ sem = IngressPermits
  /\ MergeIdle

\* The steps of the handler thread t runs, once its request has arrived.
IngressStep(t) ==
  \/ InhaleEnter(t)
  \/ InhaleCollect(t)
  \/ InhaleAcquire(t)
  \/ InhaleMergeFile(t)
  \/ InhalePrune(t)
  \/ InhaleRelease(t)
  \/ InhaleSave(t)
  \/ InhaleSeal(t)
  \/ InhaleState(t)
  \/ InhaleRespond(t)

NextIngress ==
  \E t \in Threads :
    \/ \E request \in IngressRequests : InhaleArrive(t, request)
    \/ IngressStep(t)

SpecIngress == InitIngress /\ [][NextIngress]_vars

\* Requests for the accounting of the permits: no part, rejected parts only,
\* a part that is not JSON, a part whose only URL does not decode, a form that
\* cannot be read. The store is called and answers, no payload is stored.
PermitRequests ==
  {[uploads |-> u, broken |-> FALSE, max_bytes |-> MaxBytes] :
     u \in {<<>>,
            <<Upload(FX, MaxBytes + 1), Upload(FU, 0)>>,
            <<Upload(FU, MaxBytes)>>,
            <<Upload(FX, MaxBytes + 1), Upload(FX, MaxBytes), Upload(FU, 0)>>}}
  \cup {[uploads |-> <<>>, broken |-> TRUE, max_bytes |-> MaxBytes]}

NextPermits ==
  \E t \in Threads :
    \/ \E request \in PermitRequests : InhaleArrive(t, request)
    \/ IngressStep(t)

\* The event loop and the thread pool run every handler that can take a step,
\* and anyio.Semaphore hands a released permit to the task that has waited
\* longest, so a waiting request is not passed over for ever.
SpecIngressFair ==
  /\ InitIngress
  /\ [][NextPermits]_vars
  /\ \A t \in Threads : WF_vars(IngressStep(t)) /\ SF_vars(InhaleEnter(t))

\* The requests inside the async with block.
Holders ==
  {t \in Threads : tpc[t] \in {"collect", "inhale_lock", "merge", "invalidate", "save",
                               "inhale_seal", "inhale_state", "inhale_urls"}}

\* C25: at most KAI_MAX_CONCURRENT_INHALES requests are inside the block of
\* _INHALE_SEM, every permit not held by one of them is free (so that a
\* request that left the block by its response, by HTTP 400 or by an
\* exception has given its permit back), and a request that waits for a
\* permit enters the block in the end.
C25_PermitsBoundedAndReleased ==
  /\ [](Cardinality(Holders) <= IngressPermits /\ sem = IngressPermits - Cardinality(Holders))
  /\ \A t \in Threads : (tpc[t] = "inhale_wait") ~> (tpc[t] = "collect")

\* C25 witness: a request has been answered HTTP 400, and now one request
\* holds the only permit while another waits.
C25_Witness ==
  /\ resp.route = "inhale" /\ resp.status = 400
  /\ sem = 0
  /\ \E t1, t2 \in Threads : tpc[t1] = "inhale_wait" /\ tpc[t2] \in {"merge", "inhale_urls"}

Range(seq) == {seq[i] : i \in 1..Len(seq)}

\* The parts of a request that are neither empty nor larger than
\* max_bytes_per_file, and the files of the others.
Acceptable(request) ==
  SelectSeq(request.uploads, LAMBDA up : up.size > 0 /\ up.size <= request.max_bytes)

Rejected(request) ==
  {up.file.name : up \in {request.uploads[i] : i \in
     {j \in 1..Len(request.uploads) :
        request.uploads[j].size = 0 \/ request.uploads[j].size > request.max_bytes}}}

\* What the handler of thread t does on leaving the collection of the parts
\* of a request whose form could be read.
CollectedAsClaimed(t) ==
  IF Acceptable(tl[t].request) = <<>>
  THEN /\ tpc'[t] = "idle"
       /\ resp'.status = 400 /\ resp'.body_status = "error"
       /\ resp'.request = tl[t].request
       /\ UNCHANGED <<registry, cacheVars, disk, ret, committed>>
  ELSE /\ tpc'[t] = "inhale_lock"
       /\ tl'[t].files = [i \in 1..Len(Acceptable(tl[t].request)) |-> Acceptable(tl[t].request)[i].file]
       /\ \A name \in Rejected(tl[t].request) : Note(name, "skipped") \in Range(tl'[t].soft_notes)

\* C30: a POST /inhale without file part, or whose parts are all empty or
\* larger than max_bytes_per_file, is answered HTTP 400 with status "error"
\* without a call of the store, so registry, caches and state file stay as
\* they are; with an acceptable part among them, the empty and oversized
\* parts are skipped with a note and the others are handed to inhale_files,
\* and the response counts every part and carries the notes.
C30_BadUploads ==
  [][/\ \A t \in Threads :
          (tpc[t] = "collect" /\ tpc'[t] # "collect" /\ ~tl[t].request.broken)
            => CollectedAsClaimed(t)
     /\ (resp' # resp /\ resp'.route = "inhale" /\ resp'.status = 200) =>
          /\ resp'.files_received = Len(resp'.request.uploads)
          /\ resp'.files = [i \in 1..Len(Acceptable(resp'.request)) |-> Acceptable(resp'.request)[i].file]
          /\ \A name \in Rejected(resp'.request) : Note(name, "skipped") \in Range(resp'.errors)
          /\ resp'.report.crystals_total > 0]_vars

\* C30 witness: a request with an oversized, an acceptable and an empty part
\* has been merged (the registry holds the URL of c.json), and a later
\* request whose parts are all rejected was answered HTTP 400.
C30_Witness ==
  /\ resp.route = "inhale" /\ resp.status = 400
  /\ resp.files_received = 2
  /\ Len(resp.errors) = 4
  /\ CanonicalOf(3) \in DOMAIN registry
  /\ \A t \in Threads : tpc[t] = "idle"

-----------------------------------------------------------------------------
(* Claims about the seal and the caches *)

\* The registries of stores in other processes: loaded from a state file, and
\* after one inhale_files call on that.
OtherStores ==
  {LoadedRegistry(d) : d \in StartDisks}
    \cup {InhaledRegistry(LoadedRegistry(d), files, 0) : d \in StartDisks, files \in PersistBatches}

\* The seal get_seal returns and the state_seal get_state returns in a store
\* that holds the registry reg and has answered no read yet.
FreshSeal(reg) == _ensure_urls_cache(reg, NoUrls, NoSeal).seal
FreshStateSeal(reg) == _ensure_state_cache(reg, NoUrls, NoSeal, NoState).state.state_seal

\* The stores of OtherStores whose ordered URL list is the given one.
SameList(ordered) == {other \in OtherStores : build_ordered_urls(other) = ordered}

\* C31: the seal is a function of the ordered URL list alone: the value
\* get_seal returns and the state_seal get_state returns are the ones every
\* store of another process with the same ordered URL list returns, whatever
\* its payloads, and the ones this store returned before the last
\* inhale_files call if the list was the same then.
C31_SealPure ==
  /\ ret.op = "get_seal" =>
       /\ \A other \in SameList(build_ordered_urls(registry)) :
            FreshSeal(other) = ret.seal /\ FreshStateSeal(other) = ret.seal
       /\ build_ordered_urls(hist.reg_before) = build_ordered_urls(registry) =>
            hist.seal_before = ret.seal
  /\ ret.op = "get_state" =>
       /\ \A other \in SameList(ret.state.urls) :
            FreshSeal(other) = ret.state.state_seal /\ FreshStateSeal(other) = ret.state.state_seal
       /\ build_ordered_urls(hist.reg_before) = ret.state.urls =>
            hist.seal_before = ret.state.state_seal

\* C31 witness: get_seal answered after an inhale_files call that changed a
\* payload and left the ordered URL list as it was, and a store of another
\* process has the same list with another payload.
C31_Witness ==
  /\ ret.op = "get_seal"
  /\ n_inhales > 0
  /\ registry # hist.reg_before
  /\ build_ordered_urls(hist.reg_before) = build_ordered_urls(registry)
  /\ \E other \in SameList(build_ordered_urls(registry)) : other # registry

-----------------------------------------------------------------------------
(* Claims about the explicit parent walk *)

\* C32: _stitch_explicit_parent_chain ends on every registry and leaf, a
\* registry whose parentUrl links form a cycle or a chain longer than 128
\* included: the loop takes at most 128 turns and inserts at most two URLs
\* (an origin and a parent) per turn, and nothing but insertions changes the
\* registry.
C32_StitchTerminates ==
  (call.fn = "_stitch_explicit_parent_chain" /\ call.out # <<>>) =>
    /\ call.out[1].done
    /\ call.out[1].depth <= StitchMaxDepth
    /\ Len(call.out[1].path) = call.out[1].depth
    /\ call.out[1].n <= 2 * call.out[1].depth
    /\ Cardinality(DOMAIN call.out[1].reg) = Cardinality(DOMAIN call.arg.reg) + call.out[1].n
    /\ \A u \in DOMAIN call.arg.reg : call.out[1].reg[u] = call.arg.reg[u]

\* C32 witness: the walk over the chain of 130 URLs ended at the cap of 128
\* turns.
C32_Witness ==
  /\ call.fn = "_stitch_explicit_parent_chain" /\ call.out # <<>>
  /\ call.arg.reg = LongChain
  /\ call.arg.start_url = CanonicalOf(101)
  /\ call.out[1].depth = StitchMaxDepth

\* C33: the walk stands at no URL twice (it ends when it reaches a URL it has
\* visited), and it ends in the turn after a hop to a parent that is neither
\* stored nor decodable.
C33_StitchStopsAtCycle ==
  (call.fn = "_stitch_explicit_parent_chain" /\ call.out # <<>>) =>
    /\ \A i, j \in 1..Len(call.out[1].path) :
         i < j => call.out[1].path[i] # call.out[1].path[j]
    /\ \A i \in 1..Len(call.out[1].path) :
         call.out[1].path[i] \notin DOMAIN call.out[1].reg => i = Len(call.out[1].path)

-----------------------------------------------------------------------------
(* Claims about the keys and the topology fields of the registry *)

\* C35: every key of the registry is a canonical URL, canonicalize_url(key) =
\* key, after the start-up load and after every inhale_files call, so that no
\* two keys canonicalise to the same URL.
C35_KeysCanonical ==
  /\ \A u \in DOMAIN registry : canonicalize_url(u) = u
  /\ \A u, w \in DOMAIN registry : canonicalize_url(u) = canonicalize_url(w) => u = w

\* C36: after an inhale_files call every originUrl and parentUrl that is set
\* in a payload of the registry is a canonical URL, a fixed point of
\* canonicalize_url, in the entries made from leaf hits and in the ancestors
\* the witness synthesis and the parent walk inserted.
C36_TopologyCanonical ==
  n_inhales > 0 =>
    \A u \in DOMAIN registry : \A k \in TopologyFields :
      ~_is_missing(registry[u][k]) =>
        (IsUrl(registry[u][k]) /\ canonicalize_url(registry[u][k].url) = registry[u][k].url)

-----------------------------------------------------------------------------
(* Claims about the logical time of merged payloads and the report *)

\* The greater of two kai tuples.
TupleMax(a, b) == IF TupleGT(b, a) THEN b ELSE a

\* C37: the kai tuple of _merge_payload(prev, inc) is the greater of the
\* tuples of prev and inc, and so is the tuple of the registry entry after
\* the payload inc was upserted on the stored payload prev.
C37_MergedTimeIsMax ==
  /\ mpc # "start" =>
       kai_tuple_from_payload(mab)
         = TupleMax(kai_tuple_from_payload(pa), kai_tuple_from_payload(pb))
  /\ mpc = "second" =>
       kai_tuple_from_payload(registry[MergeKey])
         = TupleMax(kai_tuple_from_payload(pa), kai_tuple_from_payload(pb))

\* C38: with pruning disabled, an inhale_files call whose report has
\* crystals_imported = 0 leaves the registry as it was, keys and payloads.
C38_ImportedCountsChanges ==
  (ret.op = "inhale" /\ prune_keep = 0 /\ ret.report.crystals_imported = 0) =>
    registry = hist.reg_before

-----------------------------------------------------------------------------
(* The save of inhale_files step by step, on the threads.  A file is here    *)
(* its bytes, piece by piece: the text of a snapshot has one piece per     *)
(* registry entry, in the order of the sorted keys, and a closing piece.   *)
(* A thread's open handle follows the file it was opened on when that file *)
(* is renamed.  A crash stops every thread where it is and leaves the      *)
(* files as they are, so what holds of the files in every state holds at   *)
(* every crash point.                                                      *)

SaveBatches == { <<FA>>, <<FE>> }

\* The closing piece of a snapshot text and a piece never written (a hole).
EndOfText == [end |-> TRUE]
HolePiece == [hole |-> TRUE]

NoFile == [kind |-> "absent", text |-> <<>>]
BytesFile(text) == [kind |-> "bytes", text |-> text]

\* The entries of a registry, keys ascending.
RECURSIVE EntriesText(_, _)
EntriesText(reg, S) ==
  IF S = {} THEN <<>>
  ELSE LET first == CHOOSE a \in S : \A b \in S \ {a} : UrlLT(a, b)
       IN <<[url |-> first, payload |-> reg[first]]>> \o EntriesText(reg, S \ {first})

\* dumps_canonical_json({"spec": "KKS-1.0", "registry": {...}})
SnapshotText(reg) == EntriesText(reg, DOMAIN reg) \o <<EndOfText>>

\* f.write(data) at the handle's offset: the file's bytes afterwards.
WriteAt(text, off, data) ==
  [i \in 1..(IF Len(text) > off + Len(data) THEN Len(text) ELSE off + Len(data)) |->
     IF i > off /\ i <= off + Len(data) THEN data[i - off]
     ELSE IF i <= Len(text) THEN text[i]
     ELSE HolePiece]

\* The locals of a thread outside inhale_files: the report, the snapshot and
\* its text, the handle's offset and the name its file has now.
SaveIdle ==
  [report |-> NewReport, snap |-> EmptyRegistry, text |-> <<>>, off |-> 0, fd |-> "closed"]

\* SigilStateStore.__init__ with KAI_STATE_PATH and no state file yet.  hist
\* keeps the registries the store has had and whether a save step failed.
InitSave ==
  /\ persist_path = TRUE
  /\ disk = [main |-> NoFile, bak |-> NoFile, tmp |-> NoFile]
  /\ prune_keep = 0
  /\ registry = EmptyRegistry
  /\ cache_urls = NoUrls /\ cache_seal = NoSeal /\ cache_state = NoState
  /\ n_inhales = 0
  /\ hist = [had |-> {EmptyRegistry}, failed |-> FALSE]
  /\ ret = NoCall
  /\ committed = registry
  /\ lock = NoOwner
  /\ tpc = [t \in Threads |-> "idle"]
  /\ tl = [t \in Threads |-> SaveIdle]
  /\ resp = NoResponse
  /\ sem = _MAX_CONCURRENT_INHALES
  /\ MergeIdle

saveFrame == <<prune_keep, persist_path, lock, sem, resp, mergeVars>>

\* inhale_files: the block under the lock (merge, prune, invalidate).
SaveInhale(t, files) ==
  /\ tpc[t] = "idle"
  /\ n_inhales < MaxInhales
  /\ LockFree(lock)
  /\ \E r \in {inhale_files_into_registry(registry, files)},
        c \in {_invalidate_cache([urls |-> cache_urls, seal |-> cache_seal, state |-> cache_state])} :
        /\ registry' = _maybe_prune(r.reg, prune_keep)
        /\ cache_urls' = c.urls /\ cache_seal' = c.seal /\ cache_state' = c.state
        /\ tl' = [tl EXCEPT ![t].report = r.report]
  /\ hist' = [hist EXCEPT !.had = @ \cup {registry'}]
  /\ committed' = registry'
  /\ n_inhales' = n_inhales + 1
  /\ tpc' = [tpc EXCEPT ![t] = "snapshot"]
  /\ UNCHANGED <<disk, ret, saveFrame>>

\* _save_to_disk_best_effort: obj is built under the lock and dumped.
SaveSnapshot(t) ==
  /\ tpc[t] = "snapshot"
  /\ LockFree(lock)
  /\ tl' = [tl EXCEPT ![t].snap = registry, ![t].text = SnapshotText(registry)]
  /\ tpc' = [tpc EXCEPT ![t] = "open"]
  /\ UNCHANGED <<registry, cacheVars, disk, n_inhales, hist, ret, committed, saveFrame>>

\* _atomic_write_text: tmp.open("w") creates <path>.tmp or cuts the file of
\* that name to nothing; a handle another thread holds on it stays open.
TmpOpen(t) ==
  /\ tpc[t] = "open"
  /\ disk' = [disk EXCEPT !.tmp = BytesFile(<<>>)]
  /\ tl' = [tl EXCEPT ![t].off = 0, ![t].fd = "tmp"]
  /\ tpc' = [tpc EXCEPT ![t] = "write"]
  /\ UNCHANGED <<registry, cacheVars, n_inhales, hist, ret, committed, saveFrame>>

\* What a write through a handle does to the files: the bytes land in the
\* file the handle was opened on, whatever its name is now; nothing is seen
\* of them once that file has been replaced.
HandleWrite(d, fd, off, data) ==
  IF fd \in {"tmp", "main"} THEN [d EXCEPT ![fd] = BytesFile(WriteAt(d[fd].text, off, data))] ELSE d

\* f.write(text); f.flush(); os.fsync(): the text reaches the file in one
\* write or in several; the handle is closed after the last.
TmpWrite(t) ==
  /\ tpc[t] = "write"
  /\ \E k \in 1..(Len(tl[t].text) - tl[t].off) :
       /\ disk' = HandleWrite(disk, tl[t].fd, tl[t].off,
                              SubSeq(tl[t].text, tl[t].off + 1, tl[t].off + k))
       /\ IF tl[t].off + k = Len(tl[t].text)
          THEN /\ tl' = [tl EXCEPT ![t].off = @ + k, ![t].fd = "closed"]
               /\ tpc' = [tpc EXCEPT ![t] = "backup"]
          ELSE /\ tl' = [tl EXCEPT ![t].off = @ + k]
               /\ UNCHANGED tpc
  /\ UNCHANGED <<registry, cacheVars, n_inhales, hist, ret, committed, saveFrame>>

\* A write raises (OSError): the handle is closed, the exception is swallowed
\* by _save_to_disk_best_effort and inhale_files returns the report.
TmpWriteFails(t) ==
  /\ tpc[t] = "write"
  /\ tl' = [tl EXCEPT ![t] = SaveIdle]
  /\ tpc' = [tpc EXCEPT ![t] = "idle"]
  /\ hist' = [hist EXCEPT !.failed = TRUE]
  /\ ret' = [op |-> "inhale", report |-> tl[t].report]
  /\ UNCHANGED <<registry, cacheVars, disk, n_inhales, committed, saveFrame>>

\* if keep_backup and path.exists(): bak.write_bytes(path.read_bytes())
BakCopy(t) ==
  /\ tpc[t] = "backup"
  /\ disk' = IF disk.main.kind # "absent" THEN [disk EXCEPT !.bak = disk.main] ELSE disk
  /\ tpc' = [tpc EXCEPT ![t] = "replace"]
  /\ UNCHANGED <<registry, cacheVars, n_inhales, hist, ret, committed, tl, saveFrame>>

\* The name a handle's file has after os.replace(tmp, path).
Renamed(fd) ==
  CASE fd = "tmp" -> "main"
    [] fd = "main" -> "unlinked"
    [] OTHER -> fd

\* os.replace(tmp, path): FileNotFoundError (swallowed) when another thread
\* has moved <path>.tmp away; else the file, open handles included, takes the
\* target's name.  inhale_files returns the report.
Replace(t) ==
  /\ tpc[t] = "replace"
  /\ IF disk.tmp.kind = "absent"
     THEN /\ hist' = [hist EXCEPT !.failed = TRUE]
          /\ tl' = [tl EXCEPT ![t] = SaveIdle]
          /\ UNCHANGED disk
     ELSE /\ disk' = [disk EXCEPT !.main = disk.tmp, !.tmp = NoFile]
          /\ tl' = [u \in Threads |-> IF u = t THEN SaveIdle
                                      ELSE [tl[u] EXCEPT !.fd = Renamed(@)]]
          /\ UNCHANGED hist
  /\ ret' = [op |-> "inhale", report |-> tl[t].report]
  /\ tpc' = [tpc EXCEPT ![t] = "idle"]
  /\ UNCHANGED <<registry, cacheVars, n_inhales, committed, saveFrame>>

NextSave ==
  \E t \in Threads :
    \/ \E files \in SaveBatches : SaveInhale(t, files)
    \/ SaveSnapshot(t)
    \/ TmpOpen(t)
    \/ TmpWrite(t)
    \/ TmpWriteFails(t)
    \/ BakCopy(t)
    \/ Replace(t)

SpecSave == InitSave /\ [][NextSave]_vars

-----------------------------------------------------------------------------
(* Claims about the state file under concurrent saves *)

\* C39: with a state path, once every inhale_files call has returned and no
\* save step failed, the target file holds the snapshot of the registry in
\* memory.
C39_FileIsLatest ==
  (n_inhales > 0 /\ (\A t \in Threads : tpc[t] = "idle") /\ ~hist.failed) =>
    disk.main = BytesFile(SnapshotText(registry))

\* C40: in every state the target file is absent or holds the complete
\* snapshot of a registry the store has had.
C40_TargetWhole ==
  \/ disk.main.kind = "absent"
  \/ \E reg \in hist.had : disk.main = BytesFile(SnapshotText(reg))

====
